---- MODULE Spec2Model ----
(***************************************************************************)
(* A model of vector.h, the thread-safe dynamic array of                   *)
(* EdgeOfAssembly/vector-lib.  One container is shared by a few client     *)
(* threads; every public operation is a call that moves through the        *)
(* stages of its code: the caller-side null check, the lock acquisition,   *)
(* the internal engine (_vector_*_internal) and the lock release.          *)
(*                                                                         *)
(* size_t is scaled down to the range 0..SIZE_MAX with wrap-around         *)
(* arithmetic; elements are small integers (the element's bytes read as    *)
(* one number, 0 = all-zero bytes); the buffer is the sequence of slots of *)
(* the heap block vec->data points to.                                     *)
(***************************************************************************)
EXTENDS Integers, Sequences, FiniteSets, TLC

(* ------------------------------ bounds -------------------------------- *)
\* largest value of the (scaled-down) unsigned size type
SIZE_MAX == 15
\* calls that ask for more than MaxLen elements are issued only when the
\* size computation overflows
MaxLen == 2
\* the same limit for the calls of the concurrent specification
ClientLen == 1
\* number of thread identities
NumThreads == 3
\* threads of test_thread_safety_append and appends per thread
NumWorkers == 2
OpsPerThread == 2
\* elements in the container the concurrent pops start from
PopInitLen == 1
\* the resize scenario: elements at creation and largest requested length
ResizeInit == 3
MaxResize == 5
EditLen == 3
MaxCompares == 2
GrowLen == 10
DemandCap == 4
WideCalls == 1

Threads == 1..NumThreads
\* the client threads of the general concurrent specification
Clients == {1, 2}
\* the threads of test_thread_safety_append
Workers == 1..NumWorkers
\* heap addresses the allocator hands out; NULL is 0
NULL == 0
Addrs == {1, 2}
\* element values used as call arguments (non-zero, so that zero fill shows)
Values == {1, 2}
\* content of a slot that was allocated but never written
Junk == -1

VARIABLES
    data,          \* vec->data: NULL or the address of the heap block
    buf,           \* the slots of the heap block at vec->data
    length,        \* vec->length
    capacity,      \* vec->capacity
    element_size,  \* vec->element_size
    rwlock,        \* vec->rwlock: [locked, shared]
    platform,      \* "linux" (pthread_rwlock_t) or "win32" (SRWLOCK)
    heap,          \* the results the allocator can return: addresses, NULL on failure
    pc,            \* pc[t]: the stage of thread t's current call
    frame,         \* frame[t]: the operation and arguments of the call
    ret,           \* ret[t]: the value the call is about to return
    mode,          \* mode[t]: the hold thread t has acquired and not released
    iter,          \* iter[t]: loop counter of thread_append_worker
    ub,            \* an access outside the heap block has happened
    copied,        \* the container the last successful vector_copy returned
    _sort_context, \* _sort_context of each storage cell: a container or NULL
    _sort_compar,  \* _sort_compar of each storage cell: a comparator or NULL
    thread_local,  \* the build gives each thread its own _sort_context, _sort_compar
    pre,           \* history: the container when the current call was made
    popped,        \* history: the results of the completed pop calls
    obs,           \* history: the field values vector_at_ptr calls have read,
                   \* the reallocations appends have made
    whole          \* history: the container states at call boundaries

vecvars == <<data, buf, length, capacity, element_size>>
thrvars == <<pc, frame, ret, mode, iter>>
vars == <<data, buf, length, capacity, element_size, rwlock, platform, heap,
          pc, frame, ret, mode, iter, ub, copied, _sort_context, _sort_compar,
          thread_local, pre, popped, obs, whole>>
sortvars == <<_sort_context, _sort_compar, thread_local>>
\* the history variables; no operation of the program reads them
history == <<pre, popped, obs, whole>>

Min(a, b) == IF a < b THEN a ELSE b

(* -------------------------- safe arithmetic --------------------------- *)
\* size_t arithmetic wraps modulo SIZE_MAX + 1
Wrap(x) == x % (SIZE_MAX + 1)

_safe_add(a, b) ==
    IF b > SIZE_MAX - a
    THEN [ok |-> FALSE, result |-> 0]
    ELSE [ok |-> TRUE, result |-> Wrap(a + b)]

\* a multiplication without the overflow test
_safe_mul_Unchecked(a, b) == [ok |-> TRUE, result |-> Wrap(a * b)]

_safe_mul(a, b) ==
    IF a # 0 /\ b > SIZE_MAX \div a
    THEN [ok |-> FALSE, result |-> 0]
    ELSE [ok |-> TRUE, result |-> Wrap(a * b)]

(* ------------------------------ memory -------------------------------- *)
Zeros(n) == [k \in 1..n |-> 0]

\* the slots of a block after realloc to n slots: the common prefix is kept
Resized(b, n) == [k \in 1..n |-> IF k <= Len(b) THEN b[k] ELSE Junk]

\* the outcomes of allocator.realloc / allocator.alloc: NULL on failure, or
\* an address, the old one or a new one
AllocResults == heap

\* memcpy/memmove of vals to slot i (0-based); slots outside the block are
\* not part of buf, writing them is recorded in ub
WriteAt(b, i, vals) ==
    [k \in 1..Len(b) |->
        IF k - 1 >= i /\ k - 1 < i + Len(vals) THEN vals[k - i] ELSE b[k]]

\* the n slots from slot i (0-based); slots outside the block read as Junk
ReadAt(b, i, n) ==
    [k \in 1..n |-> IF i + k >= 1 /\ i + k <= Len(b) THEN b[i + k] ELSE Junk]

\* an access to slots [i, i+n) leaves the block
OutOfBlock(b, i, n) == n > 0 /\ (i < 0 \/ i + n > Len(b))

\* the live elements, element 0 first
Live == ReadAt(buf, 0, length)

(* ------------------------------- frames ------------------------------- *)
NoFrame == [op |-> "none"]
NoRet == [code |-> 0, out |-> <<>>, errs |-> 0, held |-> 0, tried |-> 0]
\* the return value: code is the int/ssize_t/size_t result (0 or an index on
\* success, -1 for the failure value or a NULL pointer), out the element or
\* container content handed back, errs the number of _vector_error calls
Result(c, o, e) == [code |-> c, out |-> o, errs |-> e, held |-> 0, tried |-> 0]
\* the result of a constructor: held is the number of heap blocks the call
\* has allocated and not freed, tried the number of allocator calls it made
Built(c, o, e, h, a) == [code |-> c, out |-> o, errs |-> e, held |-> h, tried |-> a]

WriteOps == {"append", "prepend", "insert", "remove", "pop", "resize",
             "reserve", "shrink_to_fit", "clear", "swap", "set", "sort"}
ReadOps == {"at", "find", "copy", "serialize"}
UnlockedOps == {"length", "capacity", "is_empty", "at_ptr"}

(* ------------------------- concurrency guard -------------------------- *)
Free == [locked |-> FALSE, shared |-> 0]

\* pthread_rwlock_rdlock / AcquireSRWLockShared: blocks while the lock is
\* held and not marked as held by readers
vector_rdlock(t) ==
    /\ pc[t] = "lock"
    /\ frame[t].op \in ReadOps
    /\ ~rwlock.locked \/ rwlock.shared > 0
    /\ rwlock' = [locked |-> TRUE, shared |-> Min(rwlock.shared + 1, Cardinality(Clients))]
    /\ mode' = [mode EXCEPT ![t] = "shared"]
    /\ pc' = [pc EXCEPT ![t] = "body"]
    /\ UNCHANGED <<vecvars, platform, heap, frame, ret, iter, ub>>

\* pthread_rwlock_wrlock / AcquireSRWLockExclusive: blocks while the lock is held
WrlockFree_NoExclusion == TRUE

WrlockFree == ~rwlock.locked

vector_wrlock(t) ==
    /\ pc[t] = "lock"
    /\ frame[t].op \in WriteOps
    /\ WrlockFree
    /\ rwlock' = [rwlock EXCEPT !.locked = TRUE]
    /\ mode' = [mode EXCEPT ![t] = "exclusive"]
    /\ pc' = [pc EXCEPT ![t] = "body"]
    /\ UNCHANGED <<vecvars, platform, heap, frame, ret, iter, ub>>

\* pthread_rwlock_unlock: releases the hold the caller has, whatever its mode
PthreadUnlock(l) ==
    IF l.shared > 0
    THEN [locked |-> l.shared > 1, shared |-> l.shared - 1]
    ELSE Free

\* ReleaseSRWLockExclusive: clears the lock bit.  Called by a thread that
\* holds the lock in shared mode its behaviour is undefined: the share may be
\* given back as well, or the share count may stay behind in the lock word
\* (it is never taken out again: only its being non-zero matters, so the
\* count saturates at the number of client threads)
SrwReleaseExclusive(l, m) ==
    IF m = "shared"
    THEN {PthreadUnlock(l), [l EXCEPT !.locked = FALSE]}
    ELSE {[l EXCEPT !.locked = FALSE]}

\* the lock after vector_unlock by a thread whose hold has mode m
UnlockResults(l, m) ==
    IF platform = "win32" THEN SrwReleaseExclusive(l, m) ELSE {PthreadUnlock(l)}

\* vector_unlock followed by the return to the caller
vector_unlock(t) ==
    /\ pc[t] = "unlock"
    /\ \E l \in UnlockResults(rwlock, mode[t]) : rwlock' = l
    /\ mode' = [mode EXCEPT ![t] = "none"]
    /\ pc' = [pc EXCEPT ![t] = "idle"]
    /\ frame' = [frame EXCEPT ![t] = NoFrame]
    /\ ret' = [ret EXCEPT ![t] = NoRet]
    /\ UNCHANGED <<vecvars, platform, heap, iter, ub>>

\* the return of a call that holds no lock
Return(t) ==
    /\ pc[t] = "ret"
    /\ pc' = [pc EXCEPT ![t] = "idle"]
    /\ frame' = [frame EXCEPT ![t] = NoFrame]
    /\ ret' = [ret EXCEPT ![t] = NoRet]
    /\ UNCHANGED <<vecvars, rwlock, platform, heap, mode, iter, ub>>

(* ------------------------------- append ------------------------------- *)
\* growth by half the capacity only, whatever the number of elements needed
GrownCapacity_HalfOnly(num_values, total_elements) ==
    IF capacity = 0 THEN num_values ELSE Wrap(capacity + capacity \div 2)

\* the capacity append and insert grow to
GrownCapacity(num_values, total_elements) ==
    LET new_capacity == IF capacity = 0 THEN num_values
                        ELSE Wrap(capacity + capacity \div 2)
    IN  IF new_capacity < total_elements THEN total_elements ELSE new_capacity

\* what the body of a call leaves behind: the next stage and the result
Finish(t, stage, r) ==
    /\ pc' = [pc EXCEPT ![t] = stage]
    /\ ret' = [ret EXCEPT ![t] = r]

\* _vector_append_internal up to the growth of the buffer (lines 454-477);
\* a failure returns to the macro, which reports it and unlocks
append_grow(t) ==
    /\ pc[t] = "body"
    /\ frame[t].op = "append"
    /\ LET num_values == Len(frame[t].values)
           sum == _safe_add(length, num_values)
           total_elements == sum.result
           new_capacity == GrownCapacity(num_values, total_elements)
           new_size == _safe_mul(new_capacity, element_size)
       IN  IF num_values = 0
           THEN /\ Finish(t, "unlock", Result(0, <<>>, 0))
                /\ UNCHANGED <<vecvars, frame>>
           ELSE IF ~sum.ok
           THEN /\ Finish(t, "unlock", Result(-1, <<>>, 1))
                /\ UNCHANGED <<vecvars, frame>>
           ELSE IF total_elements > capacity
           THEN IF ~new_size.ok
                THEN /\ Finish(t, "unlock", Result(-1, <<>>, 1))
                     /\ UNCHANGED <<vecvars, frame>>
                ELSE \E new_data \in AllocResults :
                       IF new_data = NULL
                       THEN /\ Finish(t, "unlock", Result(-1, <<>>, 1))
                            /\ UNCHANGED <<vecvars, frame>>
                       ELSE /\ data' = new_data
                            /\ buf' = Resized(buf, new_size.result \div element_size)
                            /\ capacity' = new_capacity
                            /\ frame' = [frame EXCEPT ![t].total_elements = total_elements]
                            /\ Finish(t, "copy", NoRet)
                            /\ UNCHANGED <<length, element_size>>
           ELSE /\ frame' = [frame EXCEPT ![t].total_elements = total_elements]
                /\ Finish(t, "copy", NoRet)
                /\ UNCHANGED vecvars
    /\ UNCHANGED <<rwlock, platform, heap, mode, iter, ub>>

\* _vector_append_internal, lines 478-481: the memcpy to the end and the
\* store of the new length
append_copy(t) ==
    /\ pc[t] = "copy"
    /\ frame[t].op = "append"
    /\ buf' = WriteAt(buf, length, frame[t].values)
    /\ ub' = (ub \/ OutOfBlock(buf, length, Len(frame[t].values)))
    /\ length' = frame[t].total_elements
    /\ Finish(t, "unlock", Result(0, <<>>, 0))
    /\ UNCHANGED <<data, capacity, element_size, rwlock, platform, heap,
                   frame, mode, iter>>

(* ------------------------- growth and capacity ------------------------ *)
Op(t, name) == pc[t] = "body" /\ frame[t].op = name

\* the body of a call that fails or changes nothing
Unchanged(t, stage, r) ==
    /\ Finish(t, stage, r)
    /\ UNCHANGED <<vecvars, ub>>

\* _vector_reserve_internal storing the result of realloc before testing it
Reserved_StoresNull(new_capacity, new_data) ==
    LET new_size == _safe_mul(new_capacity, element_size)
        same == [ok |-> TRUE, data |-> data, buf |-> buf, capacity |-> capacity]
    IN  IF new_capacity <= capacity THEN same
        ELSE IF ~new_size.ok THEN [same EXCEPT !.ok = FALSE]
        ELSE IF new_data = NULL /\ new_size.result > 0
        THEN [same EXCEPT !.ok = FALSE, !.data = NULL]
        ELSE [ok |-> TRUE, data |-> new_data,
              buf |-> Resized(buf, new_size.result \div element_size),
              capacity |-> new_capacity]

\* _vector_reserve_internal with new_data the result of allocator.realloc
\* when the call reaches it: the container fields after the call, or ok FALSE
Reserved(new_capacity, new_data) ==
    LET new_size == _safe_mul(new_capacity, element_size)
        same == [ok |-> TRUE, data |-> data, buf |-> buf, capacity |-> capacity]
    IN  IF new_capacity <= capacity THEN same
        ELSE IF ~new_size.ok THEN [same EXCEPT !.ok = FALSE]
        ELSE IF new_data = NULL /\ new_size.result > 0 THEN [same EXCEPT !.ok = FALSE]
        ELSE [ok |-> TRUE, data |-> new_data,
              buf |-> Resized(buf, new_size.result \div element_size),
              capacity |-> new_capacity]

\* vector_reserve
reserve(t) ==
    /\ Op(t, "reserve")
    /\ \E new_data \in AllocResults :
         LET r == Reserved(frame[t].new_capacity, new_data)
         IN  /\ data' = r.data /\ buf' = r.buf /\ capacity' = r.capacity
             /\ Finish(t, "unlock", Result(IF r.ok THEN 0 ELSE -1, <<>>, 0))
    /\ UNCHANGED <<length, element_size, rwlock, platform, heap, frame, mode, iter, ub>>

\* the capacity resize would grow to with the policy of append and insert
ResizedCapacity_AppendPolicy(new_length) ==
    LET new_capacity == IF capacity # 0 THEN Wrap(capacity + capacity \div 2)
                        ELSE new_length
    IN  IF new_capacity < new_length THEN new_length ELSE new_capacity

\* the capacity _vector_resize_internal grows to (lines 792-794)
ResizedCapacity(new_length) ==
    LET doubled == IF capacity # 0 THEN Wrap(capacity * 2) ELSE new_length
    IN  IF doubled < new_length THEN new_length ELSE doubled

\* zeroes written only to the slots beyond the old capacity
ZeroFilled_NewBlockOnly(b, new_length) ==
    WriteAt(b, capacity, Zeros(IF new_length > capacity THEN new_length - capacity ELSE 0))

\* the memset of _vector_resize_internal (lines 798-802): zeroes from the
\* old length up to the new one
ZeroFilled(b, new_length) ==
    WriteAt(b, length, Zeros(IF new_length > length THEN new_length - length ELSE 0))

\* vector_resize / _vector_resize_internal
resize(t) ==
    /\ Op(t, "resize")
    /\ \E new_data \in AllocResults :
         LET new_length == frame[t].new_length
             new_capacity == ResizedCapacity(new_length)
             r == IF new_length > capacity THEN Reserved(new_capacity, new_data)
                  ELSE Reserved(capacity, new_data)
             fill == IF new_length > length THEN new_length - length ELSE 0
         IN  IF ~r.ok
             THEN Unchanged(t, "unlock", Result(-1, <<>>, 0))
             ELSE /\ data' = r.data /\ capacity' = r.capacity
                  /\ buf' = ZeroFilled(r.buf, new_length)
                  /\ ub' = (ub \/ OutOfBlock(r.buf, length, fill))
                  /\ length' = new_length
                  /\ Finish(t, "unlock", Result(0, <<>>, 0))
                  /\ UNCHANGED element_size
    /\ UNCHANGED <<rwlock, platform, heap, frame, mode, iter>>

\* the data pointer left as it was when the block of an empty container is freed
ShrunkData_KeepsFreed(result) == IF length # 0 THEN result ELSE data

\* new_data of _vector_shrink_to_fit_internal (line 849): the result of
\* realloc, or NULL for an empty container, whose block is freed
ShrunkData(result) == IF length # 0 THEN result ELSE NULL

\* vector_shrink_to_fit / _vector_shrink_to_fit_internal
shrink_to_fit(t) ==
    /\ Op(t, "shrink_to_fit")
    /\ \E result \in AllocResults :
         LET new_size == _safe_mul(length, element_size)
             new_data == ShrunkData(result)
         IN  IF capacity = length
             THEN Unchanged(t, "unlock", Result(0, <<>>, 0))
             ELSE IF ~new_size.ok
             THEN Unchanged(t, "unlock", Result(-1, <<>>, 0))
             ELSE IF length # 0 /\ new_data = NULL
             THEN Unchanged(t, "unlock", Result(-1, <<>>, 0))
             ELSE /\ data' = new_data
                  /\ buf' = Resized(buf, new_size.result \div element_size)
                  /\ capacity' = length
                  /\ Finish(t, "unlock", Result(0, <<>>, 0))
                  /\ UNCHANGED <<length, element_size, ub>>
    /\ UNCHANGED <<rwlock, platform, heap, frame, mode, iter>>

\* the buffer given back as well
Cleared_Released == [length |-> 0, capacity |-> 0, data |-> NULL]

\* the fields after vector_clear (line 170): only the length is stored
Cleared == [length |-> 0, capacity |-> capacity, data |-> data]

\* vector_clear
clear(t) ==
    /\ Op(t, "clear")
    /\ length' = Cleared.length /\ capacity' = Cleared.capacity /\ data' = Cleared.data
    /\ Finish(t, "unlock", Result(0, <<>>, 0))
    /\ UNCHANGED <<buf, element_size, rwlock, platform, heap,
                   frame, mode, iter, ub>>

(* -------------------------- insert and remove ------------------------- *)
\* the slot the memmove of _vector_insert_internal moves the suffix to
\* (line 674)
ShiftedTo(index, num_values) == Wrap(index + num_values)

\* _vector_insert_internal(vec, index, Len(values), values), reported by the
\* vector_insert / vector_prepend macro on failure
Inserted(t, index, values) ==
    \E new_data \in AllocResults :
      LET num_values == Len(values)
          sum == _safe_add(length, num_values)
          total_elements == sum.result
          r == IF total_elements > capacity
               THEN Reserved(GrownCapacity(num_values, total_elements), new_data)
               ELSE Reserved(capacity, new_data)
          tail == IF index < length THEN length - index ELSE 0
          moved == WriteAt(r.buf, ShiftedTo(index, num_values), ReadAt(r.buf, index, tail))
      IN  IF num_values = 0
          THEN Unchanged(t, "unlock", Result(0, <<>>, 0))
          ELSE IF index > length \/ ~sum.ok \/ ~r.ok
          THEN Unchanged(t, "unlock", Result(-1, <<>>, 1))
          ELSE /\ data' = r.data /\ capacity' = r.capacity
               /\ buf' = WriteAt(moved, index, values)
               /\ ub' = (ub \/ OutOfBlock(r.buf, index, tail + num_values))
               /\ length' = total_elements
               /\ Finish(t, "unlock", Result(0, <<>>, 0))
               /\ UNCHANGED element_size

\* vector_insert
insert(t) ==
    /\ Op(t, "insert")
    /\ Inserted(t, frame[t].index, frame[t].values)
    /\ UNCHANGED <<rwlock, platform, heap, frame, mode, iter>>

\* vector_prepend / _vector_prepend_internal
prepend(t) ==
    /\ Op(t, "prepend")
    /\ Inserted(t, 0, frame[t].values)
    /\ UNCHANGED <<rwlock, platform, heap, frame, mode, iter>>

\* the bounds check of _vector_remove_internal, in size_t arithmetic
RemoveOutOfBounds(index, num_elements) ==
    index >= length \/ Wrap(index + num_elements) > length

\* the suffix taken from the slot after index, whatever the count
RemovedFrom_Next(index, num_elements) == Wrap(index + 1)

\* the slot the memmove of _vector_remove_internal takes the suffix from
\* (line 759)
RemovedFrom(index, num_elements) == Wrap(index + num_elements)

\* vector_remove / _vector_remove_internal
remove(t) ==
    /\ Op(t, "remove")
    /\ LET index == frame[t].index
           num_elements == frame[t].num_elements
           elements_to_move == Wrap(length - index - num_elements)
           from == RemovedFrom(index, num_elements)
       IN  IF RemoveOutOfBounds(index, num_elements)
           THEN Unchanged(t, "unlock", Result(-1, <<>>, 1))
           ELSE IF num_elements = 0
           THEN Unchanged(t, "unlock", Result(0, <<>>, 0))
           ELSE /\ buf' = WriteAt(buf, index, ReadAt(buf, from, elements_to_move))
                /\ ub' = (ub \/ OutOfBlock(buf, index, elements_to_move)
                             \/ OutOfBlock(buf, from, elements_to_move))
                /\ length' = Wrap(length - num_elements)
                /\ Finish(t, "unlock", Result(0, <<>>, 0))
                /\ UNCHANGED <<data, capacity, element_size>>
    /\ UNCHANGED <<rwlock, platform, heap, frame, mode, iter>>

(* --------------------------------- pop -------------------------------- *)
\* _vector_pop_internal, line 690: the emptiness test, made before the lock
\* is taken
pop_check(t) ==
    /\ pc[t] = "check"
    /\ frame[t].op = "pop"
    /\ IF length = 0
       THEN Finish(t, "ret", Result(-1, <<>>, 1))
       ELSE Finish(t, "lock", NoRet)
    /\ UNCHANGED <<vecvars, rwlock, platform, heap, frame, mode, iter, ub>>

\* the stage a pop whose allocation failed goes to: line 699 unlocks before
\* it returns NULL
PopFailStage_NoUnlock == "ret"

PopFailStage == "unlock"

\* the slot after the last element
LastElement_OnePast == Wrap(length)

\* last_element of _vector_pop_internal (line 702): the slot length - 1
LastElement == Wrap(length - 1)

\* _vector_pop_internal, lines 696-706, under the exclusive lock: one call
\* of allocator.alloc, whose block the caller holds on success
pop(t) ==
    /\ Op(t, "pop")
    /\ \E popped_data \in AllocResults :
         LET last == LastElement
         IN  IF popped_data = NULL
             THEN Unchanged(t, PopFailStage, Built(-1, <<>>, 0, 0, 1))
             ELSE /\ length' = Wrap(length - 1)
                  /\ ub' = (ub \/ OutOfBlock(buf, last, 1))
                  /\ Finish(t, "unlock", Built(0, ReadAt(buf, last, 1), 0, 1, 1))
                  /\ UNCHANGED <<data, buf, capacity, element_size>>
    /\ UNCHANGED <<rwlock, platform, heap, frame, mode, iter>>

(* ----------------------------- element access ------------------------- *)
\* the bounds test admitting the index equal to the length
_vector_at_Inclusive(index) == IF index > length THEN <<>> ELSE <<index>>

\* _vector_at: <<slot>> for the pointer to that slot, <<>> for NULL
_vector_at(index) == IF index >= length THEN <<>> ELSE <<index>>

\* the element saved after the first store instead of before it
SwapTemp_AfterStore(idx1, idx2) == ReadAt(buf, idx2, 1)

\* temp of _vector_swap_internal (line 870): the element at idx1
SwapTemp(idx1, idx2) == ReadAt(buf, idx1, 1)

\* vector_swap / _vector_swap_internal
swap(t) ==
    /\ Op(t, "swap")
    /\ LET idx1 == frame[t].idx1
           idx2 == frame[t].idx2
           temp == SwapTemp(idx1, idx2)
           first == WriteAt(buf, idx1, ReadAt(buf, idx2, 1))
       IN  IF idx1 >= length \/ idx2 >= length
           THEN Unchanged(t, "unlock", Result(-1, <<>>, 0))
           ELSE IF idx1 = idx2
           THEN Unchanged(t, "unlock", Result(0, <<>>, 0))
           ELSE /\ buf' = WriteAt(first, idx2, temp)
                /\ ub' = (ub \/ OutOfBlock(buf, idx1, 1) \/ OutOfBlock(buf, idx2, 1))
                /\ Finish(t, "unlock", Result(0, <<>>, 0))
                /\ UNCHANGED <<data, length, capacity, element_size>>
    /\ UNCHANGED <<rwlock, platform, heap, frame, mode, iter>>

\* vector_set
set(t) ==
    /\ Op(t, "set")
    /\ LET _ptr == _vector_at(frame[t].index)
       IN  IF _ptr = <<>>
           THEN Unchanged(t, "unlock", Result(0, <<>>, 0))
           ELSE /\ buf' = WriteAt(buf, _ptr[1], <<frame[t].value>>)
                /\ ub' = (ub \/ OutOfBlock(buf, _ptr[1], 1))
                /\ Finish(t, "unlock", Result(0, <<>>, 0))
                /\ UNCHANGED <<data, length, capacity, element_size>>
    /\ UNCHANGED <<rwlock, platform, heap, frame, mode, iter>>

\* vector_at: the element the returned pointer designates
at(t) ==
    /\ Op(t, "at")
    /\ LET _ptr == _vector_at(frame[t].index)
       IN  IF _ptr = <<>>
           THEN Unchanged(t, "unlock", Result(-1, <<>>, 1))
           ELSE Unchanged(t, "unlock", Result(0, ReadAt(buf, _ptr[1], 1), 0))
    /\ UNCHANGED <<rwlock, platform, heap, frame, mode, iter>>

\* _vector_compare_asc, _vector_compare_desc, _vector_compare_eq
Compare(compar, a, b) ==
    CASE compar = "asc"  -> IF a < b THEN -1 ELSE IF a > b THEN 1 ELSE 0
      [] compar = "desc" -> IF b < a THEN -1 ELSE IF b > a THEN 1 ELSE 0
      [] compar = "eq"   -> IF a = b THEN 0 ELSE 1

\* the scan running over every slot of the block
Examined_WholeBlock == 0..(capacity - 1)

\* the indexes the loop of _vector_find_internal visits (line 633)
Examined == 0..(length - 1)

\* vector_find / _vector_find_internal: the first index that compares equal
find(t) ==
    /\ Op(t, "find")
    /\ LET hits == {i \in Examined :
                      Compare(frame[t].compar, ReadAt(buf, i, 1)[1], frame[t].value) = 0}
           first == CHOOSE i \in hits : \A j \in hits : i <= j
       IN  IF hits = {}
           THEN Unchanged(t, "unlock", Result(-1, <<>>, 0))
           ELSE Unchanged(t, "unlock", Result(first, <<>>, 0))
    /\ UNCHANGED <<rwlock, platform, heap, frame, mode, iter>>

(* -------------------------------- sort -------------------------------- *)
RECURSIVE InsertInOrder(_, _, _)
InsertInOrder(compar, s, x) ==
    IF s = <<>> THEN <<x>>
    ELSE IF Compare(compar, x, Head(s)) <= 0 THEN <<x>> \o s
    ELSE <<Head(s)>> \o InsertInOrder(compar, Tail(s), x)

\* the result of qsort with _vector_qsort_wrapper on the live elements
RECURSIVE Sorted(_, _)
Sorted(compar, s) ==
    IF s = <<>> THEN <<>>
    ELSE InsertInOrder(compar, Sorted(compar, Tail(s)), Head(s))

\* vector_sort / _vector_sort_internal
sort(t) ==
    /\ Op(t, "sort")
    /\ IF length <= 1
       THEN Unchanged(t, "unlock", Result(0, <<>>, 0))
       ELSE /\ buf' = WriteAt(buf, 0, Sorted(frame[t].compar, Live))
            /\ ub' = (ub \/ OutOfBlock(buf, 0, length))
            /\ Finish(t, "unlock", Result(0, <<>>, 0))
            /\ UNCHANGED <<data, length, capacity, element_size>>
    /\ UNCHANGED <<rwlock, platform, heap, frame, mode, iter>>

(* -------------------------- copy and serialize ------------------------ *)
\* vector_copy: the content of the new container, or NULL
copy(t) ==
    /\ Op(t, "copy")
    /\ \E dst \in AllocResults :
         LET alloc_size == _safe_mul(element_size, length)
         IN  IF ~alloc_size.ok \/ dst = NULL
             THEN Unchanged(t, "unlock", Result(-1, <<>>, 1))
             ELSE Unchanged(t, "unlock", Result(0, Live, 0))
    /\ UNCHANGED <<rwlock, platform, heap, frame, mode, iter>>

\* the stream of _vector_serialize_internal: the length word, the
\* element-size word, then the elements
Written(len, size, elements) == <<len, size>> \o elements

\* vector_serialize / _vector_serialize_internal: the stream written, or -1
\* when an fwrite falls short
serialize(t) ==
    /\ Op(t, "serialize")
    /\ \E written \in BOOLEAN :
         IF written
         THEN Unchanged(t, "unlock", Result(0, Written(length, element_size, Live), 0))
         ELSE Unchanged(t, "unlock", Result(-1, <<>>, 0))
    /\ UNCHANGED <<rwlock, platform, heap, frame, mode, iter>>

(* ------------------------- unlocked accessors ------------------------- *)
\* vector_length, vector_capacity, vector_is_empty, vector_at_ptr: macros
\* that read the fields without taking the lock
read_field(t) ==
    /\ pc[t] = "read"
    /\ LET op == frame[t].op
       IN  CASE op = "length"   -> Finish(t, "ret", Result(length, <<>>, 0))
             [] op = "capacity" -> Finish(t, "ret", Result(capacity, <<>>, 0))
             [] op = "is_empty" -> Finish(t, "ret", Result(IF length = 0 THEN 1 ELSE 0, <<>>, 0))
             [] op = "at_ptr"   ->
                  IF _vector_at(frame[t].index) = <<>>
                  THEN Finish(t, "ret", Result(-1, <<>>, 0))
                  ELSE Finish(t, "ret", Result(0, <<data, frame[t].index>>, 0))
    /\ UNCHANGED <<vecvars, rwlock, platform, heap, frame, mode, iter, ub>>

(* ------------------- test_thread_safety_append ------------------------ *)
\* thread_append_worker: operations appends of thread_id * 1000 + i
thread_append_worker(t) ==
    /\ pc[t] = "idle"
    /\ iter[t] < OpsPerThread
    /\ frame' = [frame EXCEPT ![t] =
                   [op |-> "append", values |-> <<t * 1000 + iter[t]>>,
                    total_elements |-> 0]]
    /\ iter' = [iter EXCEPT ![t] = iter[t] + 1]
    /\ pc' = [pc EXCEPT ![t] = "lock"]
    /\ UNCHANGED <<vecvars, rwlock, platform, heap, ret, mode, ub>>

\* the storage cells of _sort_context and _sort_compar (lines 75-84): one
\* pair for each thread where the build has thread-local storage, cell 0
\* for all threads otherwise
Cells == Threads \cup {0}

\* no sort is running, in a build with thread-local storage
NoSort ==
    /\ _sort_context = [c \in Cells |-> NULL]
    /\ _sort_compar = [c \in Cells |-> "none"]
    /\ thread_local = TRUE

\* no container has been copied yet
NoCopy == [data |-> NULL, buf |-> <<>>, length |-> 0, capacity |-> 0,
           element_size |-> 0]

InitThreads ==
    /\ pc = [t \in Threads |-> "idle"]
    /\ frame = [t \in Threads |-> NoFrame]
    /\ ret = [t \in Threads |-> NoRet]
    /\ mode = [t \in Threads |-> "none"]
    /\ iter = [t \in Threads |-> 0]

\* the snapshot of a container that has not been created
NoSnapshot == [data |-> NULL, length |-> 0, capacity |-> 0, live |-> <<>>]

InitHistory ==
    /\ pre = NoSnapshot /\ popped = <<>> /\ obs = {} /\ whole = {}

\* vector_create(int, 0) on either platform, allocations never fail
InitAppend ==
    /\ data = NULL /\ buf = <<>> /\ length = 0 /\ capacity = 0
    /\ element_size \in {1}
    /\ rwlock = Free
    /\ platform \in {"linux", "win32"}
    /\ heap = Addrs
    /\ ub = FALSE
    /\ InitThreads
    /\ copied = NoCopy
    /\ NoSort
    /\ InitHistory

NextAppend ==
    /\ \E t \in Workers :
          \/ thread_append_worker(t)
          \/ vector_wrlock(t)
          \/ append_grow(t)
          \/ append_copy(t)
          \/ vector_unlock(t)
    /\ UNCHANGED <<history, copied, sortvars>>

SpecAppend == InitAppend /\ [][NextAppend]_vars

(* -------------------------------- calls ------------------------------- *)
\* the frames of the calls with arguments from the given sets
Frames(indexes, counts, sizes, seqs, vals, compars) ==
    {[op |-> "append", values |-> vs, total_elements |-> 0] : vs \in seqs}
    \cup {[op |-> "prepend", values |-> vs] : vs \in seqs}
    \cup {[op |-> "insert", index |-> i, values |-> vs] : i \in indexes, vs \in seqs}
    \cup {[op |-> "remove", index |-> i, num_elements |-> n] : i \in indexes, n \in counts}
    \cup {[op |-> "resize", new_length |-> n] : n \in sizes}
    \cup {[op |-> "reserve", new_capacity |-> n] : n \in sizes}
    \cup {[op |-> "swap", idx1 |-> i, idx2 |-> j] : i \in indexes, j \in indexes}
    \cup {[op |-> "set", index |-> i, value |-> v] : i \in indexes, v \in vals}
    \cup {[op |-> "sort", compar |-> c] : c \in compars \ {"eq"}}
    \cup {[op |-> "at", index |-> i] : i \in indexes}
    \cup {[op |-> "at_ptr", index |-> i] : i \in indexes}
    \cup {[op |-> "find", value |-> v, compar |-> c] : v \in vals, c \in compars}
    \cup {[op |-> o] : o \in {"pop", "shrink_to_fit", "clear", "copy", "serialize",
                               "length", "capacity", "is_empty"}}

\* a request for n elements is issued when it is small or when n elements
\* do not fit the size type
Issued(f, limit) ==
    CASE f.op \in {"append", "prepend", "insert"} -> length + Len(f.values) <= limit
      [] f.op = "resize"  -> f.new_length <= limit \/ ~_safe_mul(f.new_length, element_size).ok
      [] f.op = "reserve" -> f.new_capacity <= limit \/ ~_safe_mul(f.new_capacity, element_size).ok
      [] OTHER -> TRUE

\* the first stage of a call on a non-null container: the macros and
\* functions of the public interface go to their lock, _vector_pop_internal
\* to its emptiness test, the accessor macros to their read
FirstStage(op) ==
    IF op = "pop" THEN "check" ELSE IF op \in UnlockedOps THEN "read" ELSE "lock"

Begin(t, f) ==
    /\ pc[t] = "idle"
    /\ ~ub
    /\ frame' = [frame EXCEPT ![t] = f]
    /\ pc' = [pc EXCEPT ![t] = FirstStage(f.op)]
    /\ UNCHANGED <<vecvars, rwlock, platform, heap, ret, mode, iter, ub>>

\* the calls of the client threads of the concurrent specification
ClientFrames ==
    {[op |-> "at", index |-> 0],
     [op |-> "append", values |-> <<1>>, total_elements |-> 0],
     [op |-> "pop"],
     [op |-> "clear"],
     [op |-> "length"]}

Call(t) == \E f \in ClientFrames : Issued(f, ClientLen) /\ Begin(t, f)

\* the calls of the sequential specification: indexes and counts around the
\* length and at the top of the size range, sizes that fit and sizes whose
\* byte count overflows
SeqIndexes == (0..(MaxLen + 1)) \cup {SIZE_MAX}
SeqSizes == (0..MaxLen) \cup {SIZE_MAX \div 2 + 1, SIZE_MAX}

SeqFrames ==
    Frames(SeqIndexes, SeqIndexes, SeqSizes, {<<1>>, <<1, 2>>, <<>>}, Values,
           {"asc", "desc", "eq"})

SeqCall(t) == \E f \in SeqFrames : Issued(f, MaxLen) /\ Begin(t, f)

\* vector_remove with index and count over the whole size range
RemoveCall(t) ==
    \E i \in 0..SIZE_MAX, n \in 0..SIZE_MAX :
       Begin(t, [op |-> "remove", index |-> i, num_elements |-> n])

\* the container as a caller can see it
Snapshot == [data |-> data, length |-> length, capacity |-> capacity, live |-> Live]

(* --------------------------- specifications --------------------------- *)
\* the container vector_create returns for n elements with the given content
Created(n, content) ==
    /\ length = n /\ capacity = n
    /\ buf = content
    /\ data \in (IF n = 0 THEN {NULL} ELSE heap \ {NULL})
    /\ ub = FALSE
    /\ rwlock = Free

\* the steps of the operations, for thread t
Lock(t) == vector_rdlock(t) \/ vector_wrlock(t)

Body(t) ==
    \/ append_grow(t) \/ append_copy(t) \/ prepend(t) \/ insert(t) \/ remove(t)
    \/ pop_check(t) \/ pop(t) \/ resize(t) \/ reserve(t) \/ shrink_to_fit(t)
    \/ clear(t) \/ swap(t) \/ set(t) \/ sort(t) \/ at(t) \/ find(t) \/ copy(t)
    \/ serialize(t) \/ read_field(t)

Exit(t) == vector_unlock(t) \/ Return(t)

\* two client threads on one container, either platform, failing allocator
Init ==
    /\ element_size = 2
    /\ heap = {NULL, 1}
    /\ Created(1, <<1>>)
    /\ platform \in {"linux", "win32"}
    /\ InitThreads
    /\ copied = NoCopy
    /\ NoSort
    /\ InitHistory

ClientBody(t) ==
    \/ at(t) \/ append_grow(t) \/ append_copy(t)
    \/ pop_check(t) \/ pop(t) \/ clear(t) \/ read_field(t)

Next ==
    /\ \E t \in Clients : Call(t) \/ Lock(t) \/ ClientBody(t) \/ Exit(t)
    /\ UNCHANGED <<history, copied, sortvars>>

Spec == Init /\ [][Next]_vars

\* one thread on a container of at most MaxLen elements of any content, on
\* the pthread platform, with an allocator that can fail
InitSeq ==
    /\ element_size \in {1, 2}
    /\ heap = {NULL, 1}
    /\ \E n \in 0..MaxLen : \E content \in [1..n -> Values \cup {0}] : Created(n, content)
    /\ platform = "linux"
    /\ InitThreads
    /\ copied = NoCopy
    /\ NoSort
    /\ pre = Snapshot /\ popped = <<>> /\ obs = {} /\ whole = {}

NextSeq ==
    \/ SeqCall(1) /\ pre' = Snapshot /\ UNCHANGED <<popped, obs, whole, copied, sortvars>>
    \/ (Lock(1) \/ Body(1) \/ Exit(1)) /\ UNCHANGED <<history, copied, sortvars>>

SeqSpec == InitSeq /\ [][NextSeq]_vars

\* one thread calling vector_remove
NextRemove ==
    \/ RemoveCall(1) /\ pre' = Snapshot /\ UNCHANGED <<popped, obs, whole, copied, sortvars>>
    \/ (vector_wrlock(1) \/ remove(1) \/ vector_unlock(1)) /\ UNCHANGED <<history, copied, sortvars>>

SpecRemove == InitSeq /\ [][NextRemove]_vars

(* -------------------------------- create ------------------------------ *)
\* _vector_create_base with vec the result of malloc(sizeof(vector)), block
\* the result of calloc and lock_ok the success of pthread_rwlock_init
_vector_create_base(elem_size, num_elements, vec, block, lock_ok) ==
    LET alloc_size == _safe_mul(elem_size, num_elements)
        new_data == IF alloc_size.result # 0 THEN block ELSE NULL
        calls == IF alloc_size.result # 0 THEN 2 ELSE 1
        failed(e, a) == [ok |-> FALSE, errs |-> e, tried |-> a, held |-> 0,
                         data |-> NULL, buf |-> <<>>]
    IN  IF ~alloc_size.ok THEN failed(1, 0)
        ELSE IF vec = NULL THEN failed(1, 1)
        ELSE IF new_data = NULL /\ alloc_size.result > 0 THEN failed(1, 2)
        ELSE IF platform = "linux" /\ ~lock_ok THEN failed(1, calls)
        ELSE [ok |-> TRUE, errs |-> 0, tried |-> calls,
              held |-> IF new_data = NULL THEN 1 ELSE 2,
              data |-> new_data, buf |-> Zeros(num_elements)]

\* the initial values treated as a plain prefix, also when there is one
InitialValues_PrefixOnly(zeroed, num_elements, arg_count, values) ==
    WriteAt(zeroed, 0, ReadAt(values, 0, arg_count))

\* _vector_create_with_values, lines 595-609: the buffer after the initial
\* values are stored in the zeroed block; a single value goes to every element
InitialValues(zeroed, num_elements, arg_count, values) ==
    IF arg_count = 0 THEN zeroed
    ELSE IF arg_count = 1
    THEN [k \in 1..num_elements |-> ReadAt(values, 0, 1)[1]]
    ELSE WriteAt(zeroed, 0, ReadAt(values, 0, arg_count))

\* vector_create / _vector_create_with_values: the new container replaces
\* the one the variables held
create(t) ==
    /\ Op(t, "create")
    /\ \E vec \in AllocResults, block \in AllocResults, lock_ok \in BOOLEAN :
         LET f == frame[t]
             b == _vector_create_base(f.element_size, f.num_elements, vec, block, lock_ok)
             filled == InitialValues(b.buf, f.num_elements, f.arg_count, f.values)
         IN  IF ~b.ok
             THEN /\ Finish(t, "ret", Built(-1, <<>>, b.errs, b.held, b.tried))
                  /\ UNCHANGED <<vecvars, rwlock, ub>>
             ELSE IF f.arg_count > 1 /\ f.arg_count > f.num_elements
             THEN /\ Finish(t, "ret", Built(-1, <<>>, 1, 0, b.tried))
                  /\ UNCHANGED <<vecvars, rwlock, ub>>
             ELSE /\ data' = b.data /\ buf' = filled
                  /\ length' = f.num_elements /\ capacity' = f.num_elements
                  /\ element_size' = f.element_size
                  /\ rwlock' = Free
                  /\ ub' = (ub \/ (f.arg_count = 1 /\ f.num_elements > 0
                                    /\ OutOfBlock(f.values, 0, 1)))
                  /\ Finish(t, "ret", Built(0, filled, 0, b.held, b.tried))
    /\ UNCHANGED <<platform, heap, frame, mode, iter>>

\* the element sizes, element counts and value lists of the create calls:
\* counts around SIZE_MAX / 4, value lists of up to MaxLen + 1 values
CreateSizes == {1, 2, 4}
CreateCounts == (0..MaxLen) \cup {SIZE_MAX \div 4, SIZE_MAX \div 4 + 1, SIZE_MAX}
ValueLists == UNION {[1..k -> Values] : k \in 0..(MaxLen + 1)}

\* _vector_create_with_values(element_size, n, k, values) with k values, and
\* the macro vector_create(type, n) without values, for which ARG_COUNT()
\* is 1 and the compound literal is empty
CreateFrames ==
    {[op |-> "create", element_size |-> e, num_elements |-> n,
      arg_count |-> Len(vs), values |-> vs] :
        e \in CreateSizes, n \in CreateCounts, vs \in ValueLists}
    \cup {[op |-> "create", element_size |-> e, num_elements |-> n,
           arg_count |-> 1, values |-> <<>>] : e \in CreateSizes, n \in CreateCounts}

CreateCall(t) ==
    \E f \in CreateFrames :
       /\ pc[t] = "idle"
       /\ ~ub
       /\ frame' = [frame EXCEPT ![t] = f]
       /\ pc' = [pc EXCEPT ![t] = "body"]
       /\ UNCHANGED <<vecvars, rwlock, platform, heap, ret, mode, iter, ub>>

\* no container yet; the allocator can fail
InitCreate ==
    /\ element_size = 1
    /\ heap = {NULL, 1}
    /\ Created(0, <<>>)
    /\ platform \in {"linux", "win32"}
    /\ InitThreads
    /\ copied = NoCopy
    /\ NoSort
    /\ InitHistory

NextCreate ==
    /\ CreateCall(1) \/ create(1) \/ Return(1)
    /\ UNCHANGED <<history, copied, sortvars>>

SpecCreate == InitCreate /\ [][NextCreate]_vars

(* ------------------------- one thread resizing ------------------------ *)
\* vector_create(type, n, 1, 2, .., n) for n up to ResizeInit
InitResize ==
    /\ element_size \in {1, 2}
    /\ heap = {NULL, 1}
    /\ \E n \in 0..ResizeInit : Created(n, [k \in 1..n |-> k])
    /\ platform = "linux"
    /\ InitThreads
    /\ copied = NoCopy
    /\ NoSort
    /\ pre = Snapshot /\ popped = <<>> /\ obs = {} /\ whole = {}

ResizeCall(t) ==
    \E n \in 0..MaxResize : Begin(t, [op |-> "resize", new_length |-> n])

NextResize ==
    \/ ResizeCall(1) /\ pre' = Snapshot /\ UNCHANGED <<popped, obs, whole, copied, sortvars>>
    \/ (vector_wrlock(1) \/ resize(1) \/ vector_unlock(1)) /\ UNCHANGED <<history, copied, sortvars>>

SpecResize == InitResize /\ [][NextResize]_vars

(* ---------------------- concurrent pops on one container --------------- *)
\* a worker thread calls vector_pop OpsPerThread times
pop_worker(t) ==
    /\ pc[t] = "idle"
    /\ iter[t] < OpsPerThread
    /\ frame' = [frame EXCEPT ![t] = [op |-> "pop"]]
    /\ iter' = [iter EXCEPT ![t] = iter[t] + 1]
    /\ pc' = [pc EXCEPT ![t] = "check"]
    /\ UNCHANGED <<vecvars, rwlock, platform, heap, ret, mode, ub>>

\* PopInitLen elements, allocations never fail
InitPop ==
    /\ element_size = 1
    /\ heap = Addrs
    /\ Created(PopInitLen, [k \in 1..PopInitLen |-> k])
    /\ platform \in {"linux", "win32"}
    /\ InitThreads
    /\ copied = NoCopy
    /\ NoSort
    /\ InitHistory

NextPop ==
    \E t \in Workers :
       \/ /\ \/ pop_worker(t)
             \/ pop_check(t)
             \/ vector_wrlock(t)
             \/ vector_unlock(t)
             \/ Return(t)
          /\ UNCHANGED <<history, copied, sortvars>>
       \/ /\ pop(t)
          /\ popped' = Append(popped, ret'[t].out)
          /\ UNCHANGED <<pre, obs, whole, copied, sortvars>>

SpecPop == InitPop /\ [][NextPop]_vars

(* ------------- an appending thread and a vector_at_ptr reader ---------- *)
\* the fields as one triple
Triple == [length |-> length, capacity |-> capacity, data |-> data]

\* one element, allocations never fail, realloc may move the block
InitTorn ==
    /\ element_size = 1
    /\ heap = Addrs
    /\ Created(1, <<1>>)
    /\ platform \in {"linux", "win32"}
    /\ InitThreads
    /\ copied = NoCopy
    /\ NoSort
    /\ pre = NoSnapshot /\ popped = <<>> /\ obs = {}
    /\ whole = {Triple}

\* thread 1 appends as thread_append_worker does, thread 2 evaluates
\* vector_at_ptr(vec, 0); obs collects the fields the macro read, whole the
\* triples at the end of the mutating calls
NextTorn ==
    \/ /\ \/ thread_append_worker(1)
          \/ vector_wrlock(1)
          \/ append_grow(1)
          \/ append_copy(1)
          \/ Begin(2, [op |-> "at_ptr", index |-> 0])
          \/ Return(2)
       /\ UNCHANGED <<history, copied, sortvars>>
    \/ /\ vector_unlock(1)
       /\ whole' = whole \cup {Triple}
       /\ UNCHANGED <<pre, popped, obs, copied, sortvars>>
    \/ /\ read_field(2)
       /\ obs' = obs \cup {[length |-> length, data |-> data]}
       /\ UNCHANGED <<pre, popped, whole, copied, sortvars>>

SpecTorn == InitTorn /\ [][NextTorn]_vars

(* ---------------------------- claims: append -------------------------- *)
AppendDone == \A t \in Workers : iter[t] = OpsPerThread /\ pc[t] = "idle"

Count(v) == Cardinality({k \in 1..length : Live[k] = v})

\* C2: when T threads have each finished K single-element appends on an
\* initially empty container (no allocation failure), the length is T*K and
\* every appended value thread_id*1000+i is present exactly once
C2_ConcurrentAppendComplete ==
    AppendDone =>
        /\ length = NumWorkers * OpsPerThread
        /\ \A t \in Workers : \A i \in 0..(OpsPerThread - 1) :
               Count(t * 1000 + i) = 1

\* all workers have returned from their last append
C2_Witness == AppendDone /\ length > 1

(* --------------------------- claims: invariants ----------------------- *)
\* C1: in every reachable state length <= capacity holds and
\* capacity * element_size does not exceed the maximum of the size type
C1_LengthWithinCapacity ==
    /\ length <= capacity
    /\ capacity * element_size <= SIZE_MAX

(* ------------------------------ claims: pop --------------------------- *)
PopDone == \A t \in Workers : iter[t] = OpsPerThread /\ pc[t] = "idle"

\* C3: concurrent pops on n elements never take length below zero (no wrap
\* to the top of the size range), and when all calls have returned exactly
\* min(n, number of calls) of them have returned an element
C3_PopAtomic ==
    /\ length <= PopInitLen
    /\ PopDone => Len(popped) = Min(PopInitLen, NumWorkers * OpsPerThread)

(* ------------------------- claims: lock discipline -------------------- *)
\* the stages at which a call reads or writes length, capacity or the buffer
AccessStages == {"check", "read", "body", "copy"}

\* C4: a thread that is reading or writing the container's length, capacity
\* or buffer inside a public operation holds the container's lock
C4_FieldsOnlyUnderLock ==
    \A t \in Threads : pc[t] \in AccessStages => mode[t] # "none"

\* C5: a thread that has returned from a public operation, or is returning
\* from it, holds no acquisition that it has not released
C5_LockReleasedOnReturn ==
    \A t \in Threads : pc[t] \in {"idle", "ret"} => mode[t] = "none"

\* a mutating call has returned: the container is not what it was when the
\* call was made, and the caller holds nothing
C5_Witness ==
    /\ pc[1] = "idle" /\ mode[1] = "none"
    /\ Snapshot # pre

\* C6: while a thread holds the lock in exclusive mode (a structural
\* mutation in its critical section) no other thread is inside a critical
\* section of the same container, and readers hold the lock in shared mode
C6_WritersExclusive ==
    \A t \in Threads :
       /\ mode[t] = "exclusive" => \A u \in Threads \ {t} : mode[u] = "none"
       /\ (pc[t] \in {"body", "copy"} /\ frame[t].op \in ReadOps) => mode[t] = "shared"

\* C7: once no mutating call is in progress, every combination of length
\* and data that vector_at_ptr has read is the combination of some state
\* before or after a whole mutating call
C7_NoTornRead ==
    (\A t \in Threads : mode[t] = "none") =>
        \A o \in obs : \E w \in whole : w.length = o.length /\ w.data = o.data

\* C8: after any mix of read and write operations by several threads, when
\* every started operation has returned the container invariants hold:
\* length <= capacity and no access has left the buffer
C8_InvariantsAfterMix ==
    (\A t \in Threads : pc[t] = "idle") => (length <= capacity /\ ~ub)

(* ----------------------------- claims: failure ------------------------ *)
FailureOps == {"append", "prepend", "insert", "remove", "pop", "resize",
               "reserve", "shrink_to_fit", "swap"}

\* a call of thread t has its result and has not yet returned to the caller
Returning(t) == pc[t] \in {"unlock", "ret"}

\* C9: when append, prepend, insert, remove, pop, resize, reserve,
\* shrink_to_fit or swap returns its failure value, length, capacity, the
\* buffer address and the live elements are what they were before the call
C9_FailureLeavesUnchanged ==
    \A t \in Threads :
       (Returning(t) /\ frame[t].op \in FailureOps /\ ret[t].code = -1)
           => Snapshot = pre

\* a growth of a non-empty container has failed in the allocator
C9_Witness ==
    /\ Returning(1) /\ frame[1].op = "reserve" /\ ret[1].code = -1
    /\ frame[1].new_capacity <= MaxLen /\ length > 0

\* C10: remove(index, count) with index >= length or count > length - index
\* (in unbounded arithmetic, so also when index + count exceeds the maximum
\* size value) returns failure and leaves the container unchanged
C10_RemoveRejectsOutOfRange ==
    \A t \in Threads :
       (/\ Returning(t) /\ frame[t].op = "remove"
        /\ \/ frame[t].index >= pre.length
           \/ frame[t].num_elements > pre.length - frame[t].index)
           => (ret[t].code = -1 /\ Snapshot = pre)

(* ----------------------------- claims: resize ------------------------- *)
Max(a, b) == IF a > b THEN a ELSE b

\* the first n elements of s, followed by zeros when s is shorter
ZeroExtended(s, n) == [k \in 1..n |-> IF k <= Len(s) THEN s[k] ELSE 0]

\* thread t is returning from a successful call of op
Succeeded(t, op) == Returning(t) /\ frame[t].op = op /\ ret[t].code = 0

ReturningCreate(t) ==
    /\ pc[t] = "ret" /\ frame[t].op = "create"
    /\ frame[t].arg_count = Len(frame[t].values)

CreateReturns(t) == pc[t] = "ret" /\ frame[t].op = "create"

SentinelOps == FailureOps \cup {"at", "copy", "serialize"}

\* C14: an operation that detects a recoverable error and returns its
\* failure value has invoked the error callback at least once
C14_FailureCallsErrorCallback ==
    \A t \in Threads :
       (Returning(t) /\ frame[t].op \in SentinelOps /\ ret[t].code = -1)
           => ret[t].errs >= 1

(* ---------------------- pop into caller storage ----------------------- *)
\* vector_pop_to(type, vec, dest) is called by the tests and the usage notes
\* but its definition is not among the sources; it is modelled from its
\* specification: the last element is copied into the caller's storage and
\* the length decremented under the exclusive lock, without any allocation;
\* on an empty container it fails and touches nothing
PopTo_NoEmptyCheck(dest) ==
    [code |-> 0, dest |-> ReadAt(buf, Wrap(length - 1), 1)[1],
     length |-> Wrap(length - 1)]

PopTo(dest) ==
    IF length = 0
    THEN [code |-> -1, dest |-> dest, length |-> length]
    ELSE [code |-> 0, dest |-> ReadAt(buf, length - 1, 1)[1], length |-> length - 1]

\* the whole call: the lock is taken and released inside it
pop_to(t) ==
    /\ Op(t, "pop_to")
    /\ WrlockFree
    /\ LET r == PopTo(frame[t].dest)
       IN  /\ length' = r.length
           /\ Finish(t, "ret", Result(r.code, <<r.dest>>, 0))
    /\ UNCHANGED <<data, buf, capacity, element_size, rwlock, platform, heap,
                   frame, mode, iter, ub>>

\* dest holds some value of the caller before the call
PopToCall(t) ==
    \E d \in Values \cup {0} :
       /\ pc[t] = "idle"
       /\ ~ub
       /\ frame' = [frame EXCEPT ![t] = [op |-> "pop_to", dest |-> d]]
       /\ pc' = [pc EXCEPT ![t] = "body"]
       /\ UNCHANGED <<vecvars, rwlock, platform, heap, ret, mode, iter, ub>>

NextPopTo ==
    \/ PopToCall(1) /\ pre' = Snapshot /\ UNCHANGED <<popped, obs, whole, copied, sortvars>>
    \/ (pop_to(1) \/ Return(1)) /\ UNCHANGED <<history, copied, sortvars>>

SpecPopTo == InitSeq /\ [][NextPopTo]_vars

(* ------------------------ claims: pop_to ------------------------------ *)
\* C15: pop_to on a non-empty container copies the last element into the
\* destination, decrements the length, returns 0 and allocates nothing; on
\* an empty container it returns -1 and leaves destination and container
\* as they were
C15_PopToCopiesLast ==
    \A t \in Threads :
       (pc[t] = "ret" /\ frame[t].op = "pop_to") =>
          IF pre.length > 0
          THEN /\ ret[t].code = 0
               /\ ret[t].out = <<pre.live[pre.length]>>
               /\ length = pre.length - 1
               /\ Live = SubSeq(pre.live, 1, pre.length - 1)
               /\ ret[t].tried = 0 /\ ret[t].held = 0
               /\ data = pre.data /\ capacity = pre.capacity
          ELSE /\ ret[t].code = -1
               /\ ret[t].out = <<frame[t].dest>>
               /\ Snapshot = pre

C15_Witness ==
    /\ pc[1] = "ret" /\ frame[1].op = "pop_to"
    /\ pre.length = 2 /\ ret[1].code = 0 /\ length = 1
    /\ ret[1].out # <<frame[1].dest>>

(* ---------------------- calls on a NULL container --------------------- *)
\* vector_rdlock, vector_wrlock and vector_unlock return at once when the
\* container is NULL (lines 939, 952, 965); without that test they would
\* dereference the NULL pointer
LockChecksNull_Missing == FALSE

LockChecksNull == TRUE

\* the functions and macros that test the container before anything else
NullTestedFirst == {"append", "clear", "copy", "remove", "reserve", "resize",
                    "serialize", "shrink_to_fit", "swap", "find", "pop",
                    "length", "capacity", "is_empty", "at_ptr"}
\* the macros that hand the container to the lock functions and to the
\* internal function, each of which tests it
NullThroughLock == {"at", "insert", "prepend", "set", "sort"}

\* the value returned for a NULL container: -1 for the int failure value and
\* for a NULL pointer, 0 for a size of 0, 1 for true; set and sort are
\* statements and return nothing
NullValue(op) ==
    CASE op \in {"length", "capacity", "set", "sort"} -> 0
      [] op = "is_empty" -> 1
      [] OTHER -> -1

\* the _vector_error calls made for a NULL container
NullErrors(op) ==
    IF op \in {"length", "capacity", "is_empty", "at_ptr", "set", "sort"} THEN 0 ELSE 1

NullCall(t) ==
    \E o \in NullTestedFirst \cup NullThroughLock :
       /\ pc[t] = "idle"
       /\ ~ub
       /\ frame' = [frame EXCEPT ![t] = [op |-> o, vec |-> NULL]]
       /\ pc' = [pc EXCEPT ![t] = "null"]
       /\ UNCHANGED <<vecvars, rwlock, platform, heap, ret, mode, iter, ub>>

\* the whole call: no lock is taken, no field is read or written
null_call(t) ==
    /\ pc[t] = "null"
    /\ LET op == frame[t].op
       IN  /\ ub' = (ub \/ (op \in NullThroughLock /\ ~LockChecksNull))
           /\ Finish(t, "ret", Result(NullValue(op), <<>>, NullErrors(op)))
    /\ UNCHANGED <<vecvars, rwlock, platform, heap, frame, mode, iter>>

NextNull ==
    \/ NullCall(1) /\ pre' = Snapshot /\ UNCHANGED <<popped, obs, whole, copied, sortvars>>
    \/ (null_call(1) \/ Return(1)) /\ UNCHANGED <<history, copied, sortvars>>

SpecNull == InitSeq /\ [][NextNull]_vars

(* ------------------------ claims: NULL container ---------------------- *)
NullReturned(t) == pc[t] = "ret" /\ "vec" \in DOMAIN frame[t] /\ frame[t].vec = NULL

\* C16: on a NULL container the mutating operations and serialize return -1,
\* at, pop and copy return NULL, find returns -1, length and capacity return
\* 0, is_empty returns true, set and sort do nothing; no lock is acquired
\* and no memory is dereferenced
C16_NullHandleRejected ==
    \A t \in Threads :
       NullReturned(t) =>
          /\ frame[t].op \in {"append", "prepend", "insert", "remove", "resize",
                              "reserve", "shrink_to_fit", "clear", "swap",
                              "serialize", "at", "pop", "copy", "find"}
                => ret[t].code = -1
          /\ frame[t].op \in {"length", "capacity"} => ret[t].code = 0
          /\ frame[t].op = "is_empty" => ret[t].code = 1
          /\ mode[t] = "none" /\ rwlock = Free
          /\ ~ub
          /\ Snapshot = pre /\ ret[t].held = 0

C16_Witness ==
    /\ NullReturned(1) /\ frame[1].op = "insert"
    /\ ret[1].code = -1 /\ ret[1].errs = 1 /\ rwlock = Free

(* --------------------------- deserialization -------------------------- *)
\* the length word read as the second word of the stream
HeaderLength_Swapped(stream) == stream[2]

\* the words and elements _vector_deserialize_internal reads (lines 825-830)
HeaderLength(stream) == stream[1]

HeaderElementSize(stream) == stream[2]

Payload(stream) == SubSeq(stream, 3, Len(stream))

\* the blocks left allocated when only the data block is given back
Released_DataOnly(held) == held - 1

\* vector_free (lines 228-243) gives back the data block and the struct
Released(held) == 0

\* vector_deserialize / _vector_deserialize_internal: the new container
\* replaces the one the variables held
deserialize(t) ==
    /\ Op(t, "deserialize")
    /\ \E vec \in AllocResults, block \in AllocResults, lock_ok \in BOOLEAN :
         LET f == frame[t]
             s == f.stream
         IN  IF Len(s) < 2 \/ HeaderElementSize(s) # f.element_size
             THEN /\ Finish(t, "ret", Built(-1, <<>>, 0, 0, 0))
                  /\ UNCHANGED <<vecvars, rwlock>>
             ELSE LET len == HeaderLength(s)
                      b == _vector_create_base(f.element_size, len, vec, block, lock_ok)
                      got == Min(len, Len(Payload(s)))
                      filled == WriteAt(b.buf, 0, SubSeq(Payload(s), 1, got))
                  IN  IF ~b.ok
                      THEN /\ Finish(t, "ret", Built(-1, <<>>, b.errs, b.held, b.tried))
                           /\ UNCHANGED <<vecvars, rwlock>>
                      ELSE IF got # len
                      THEN /\ Finish(t, "ret", Built(-1, <<>>, 0, Released(b.held), b.tried))
                           /\ UNCHANGED <<vecvars, rwlock>>
                      ELSE /\ data' = b.data /\ buf' = filled
                           /\ length' = len /\ capacity' = len
                           /\ element_size' = f.element_size
                           /\ rwlock' = Free
                           /\ Finish(t, "ret", Built(0, filled, 0, b.held, b.tried))
    /\ UNCHANGED <<platform, heap, frame, mode, iter, ub>>

\* the streams handed to deserialize: the serialization of the container,
\* every prefix of it, and the serialization with another element size or
\* another length in its header
OtherSizes == {1, 2, 4}
Prefixes(s) == {SubSeq(s, 1, k) : k \in 0..Len(s)}
Streams ==
    Prefixes(Written(length, element_size, Live))
    \cup {Written(length, e, Live) : e \in OtherSizes}
    \cup {Written(n, element_size, Live) : n \in {Wrap(length + 1), SIZE_MAX}}

DeserializeCall(t) ==
    \E s \in Streams, e \in {1, 2} :
       /\ pc[t] = "idle"
       /\ ~ub
       /\ frame' = [frame EXCEPT ![t] = [op |-> "deserialize", stream |-> s,
                                         element_size |-> e]]
       /\ pc' = [pc EXCEPT ![t] = "body"]
       /\ UNCHANGED <<vecvars, rwlock, platform, heap, ret, mode, iter, ub>>

SerializeCall(t) == Begin(t, [op |-> "serialize"])

NextCodec ==
    \/ (SerializeCall(1) \/ DeserializeCall(1))
          /\ pre' = Snapshot /\ UNCHANGED <<popped, obs, whole, copied, sortvars>>
    \/ (vector_rdlock(1) \/ serialize(1) \/ vector_unlock(1)
          \/ deserialize(1) \/ Return(1))
          /\ UNCHANGED <<history, copied, sortvars>>

SpecCodec == InitSeq /\ [][NextCodec]_vars

(* --------------------- claims: serialization -------------------------- *)
\* C17: deserializing the stream serialize wrote for a container, with the
\* container's element size, gives a container of the same length and the
\* same elements (unless an allocation fails, which is reported), also for
\* the empty container; serialize leaves the container unchanged
C17_RoundTrip ==
    \A t \in Threads :
       /\ (Returning(t) /\ frame[t].op = "serialize") =>
             /\ Snapshot = pre
             /\ ret[t].code = 0 => ret[t].out = Written(pre.length, element_size, pre.live)
       /\ (pc[t] = "ret" /\ frame[t].op = "deserialize"
              /\ frame[t].stream = Written(pre.length, frame[t].element_size, pre.live)) =>
             \/ /\ ret[t].code = 0
                /\ length = pre.length /\ Live = pre.live
                /\ element_size = frame[t].element_size
             \/ ret[t].code = -1 /\ ret[t].errs >= 1

C17_Witness ==
    /\ pc[1] = "ret" /\ frame[1].op = "deserialize"
    /\ frame[1].stream = Written(pre.length, frame[1].element_size, pre.live)
    /\ ret[1].code = 0 /\ length = MaxLen /\ Live = pre.live
    /\ Live[1] # Live[2]

\* the four rejections of a stream: incomplete header, another element
\* size, a byte count that overflows, a payload shorter than the length
Rejected(s, size) ==
    \/ Len(s) < 2
    \/ s[2] # size
    \/ s[1] * size > SIZE_MAX
    \/ Len(s) - 2 < s[1]

\* C18: deserialize returns NULL and holds no allocation when the header is
\* incomplete, the element size differs, length * element_size overflows or
\* the payload is short
C18_RejectedStreamReleasesAll ==
    \A t \in Threads :
       (pc[t] = "ret" /\ frame[t].op = "deserialize"
           /\ Rejected(frame[t].stream, frame[t].element_size)) =>
          /\ ret[t].code = -1
          /\ ret[t].held = 0
          /\ Snapshot = pre

C18_Witness ==
    /\ pc[1] = "ret" /\ frame[1].op = "deserialize"
    /\ Len(frame[1].stream) >= 2
    /\ frame[1].stream[2] = frame[1].element_size
    /\ Len(frame[1].stream) - 2 < frame[1].stream[1]
    /\ frame[1].stream[1] * frame[1].element_size <= SIZE_MAX
    /\ ret[1].code = -1 /\ ret[1].tried = 2 /\ ret[1].held = 0

(* ------------------- claims: buffer and capacity ---------------------- *)
\* C19: between public calls the data pointer is NULL exactly when the
\* capacity is 0
C19_DataNullIffNoCapacity ==
    pc[1] = "idle" => ((data = NULL) <=> (capacity = 0))

C19_Witness ==
    /\ pc[1] = "idle" /\ data = NULL /\ capacity = 0
    /\ pre.data # NULL /\ pre.capacity > 0

\* C20: a successful append of values to contents s leaves s followed by
\* the values, the length grown by their number, and returns 0
C20_AppendExtends ==
    \A t \in Threads :
       (Returning(t) /\ frame[t].op = "append" /\ ret[t].code = 0) =>
          /\ Live = pre.live \o frame[t].values
          /\ length = pre.length + Len(frame[t].values)

C20_Witness ==
    /\ Returning(1) /\ frame[1].op = "append" /\ ret[1].code = 0
    /\ pre.length = 1 /\ frame[1].values = <<1>> /\ length = 2
    /\ pre.live = <<2>> /\ Live = <<2, 1>>
    /\ capacity > pre.capacity

(* --------------------- claims: insert and remove ---------------------- *)
\* the index of an insert or prepend call
InsertIndex(f) == IF f.op = "prepend" THEN 0 ELSE f.index

\* s with vals put in before its element i (0-based)
Spliced(s, i, vals) == SubSeq(s, 1, i) \o vals \o SubSeq(s, i + 1, Len(s))

InsertReturned(t) == Returning(t) /\ frame[t].op \in {"insert", "prepend"}

EditIndexes == (0..(EditLen + 1)) \cup {SIZE_MAX}

EditFrames ==
    {[op |-> "insert", index |-> i, values |-> vs] :
        i \in EditIndexes, vs \in {<<1>>, <<1, 2>>, <<>>}}
    \cup {[op |-> "prepend", values |-> vs] : vs \in {<<1>>, <<1, 2>>, <<>>}}
    \cup {[op |-> "remove", index |-> i, num_elements |-> n] :
            i \in EditIndexes, n \in EditIndexes}

EditCall(t) == \E f \in EditFrames : Issued(f, EditLen + 1) /\ Begin(t, f)

InitEdit ==
    /\ element_size \in {1, 2}
    /\ heap = {NULL, 1}
    /\ \E n \in 0..EditLen : \E content \in [1..n -> Values] : Created(n, content)
    /\ platform = "linux"
    /\ InitThreads
    /\ copied = NoCopy
    /\ NoSort
    /\ pre = Snapshot /\ popped = <<>> /\ obs = {} /\ whole = {}

NextEdit ==
    \/ EditCall(1) /\ pre' = Snapshot /\ UNCHANGED <<popped, obs, whole, copied, sortvars>>
    \/ (vector_wrlock(1) \/ insert(1) \/ prepend(1) \/ remove(1) \/ vector_unlock(1))
          /\ UNCHANGED <<history, copied, sortvars>>

SpecEdit == InitEdit /\ [][NextEdit]_vars

\* C22: a remove with index < length and index + count <= length leaves
\* s[0..index) ++ s[index+count..length), the length smaller by count, the
\* survivors in their order and the capacity as it was
C22_RemoveClosesGap ==
    \A t \in Threads :
       (Returning(t) /\ frame[t].op = "remove"
           /\ frame[t].index < pre.length
           /\ frame[t].index + frame[t].num_elements <= pre.length) =>
          /\ ret[t].code = 0
          /\ Live = SubSeq(pre.live, 1, frame[t].index)
                    \o SubSeq(pre.live, frame[t].index + frame[t].num_elements + 1,
                              pre.length)
          /\ length = pre.length - frame[t].num_elements
          /\ capacity = pre.capacity /\ data = pre.data

C22_Witness ==
    /\ Returning(1) /\ frame[1].op = "remove" /\ ret[1].code = 0
    /\ frame[1].index = 1 /\ frame[1].num_elements = 2
    /\ pre.live = <<1, 2, 1, 2>> /\ Live = <<1, 2>>
    /\ capacity = pre.capacity

(* ----------------------- claims: resize and reserve ------------------- *)
\* C23: a successful resize sets the length to new_length and keeps the
\* elements below min(old length, new_length); when it lengthens, every
\* element from the old length on is zero, whatever the slots held before;
\* when it does not lengthen, the capacity is unchanged
C23_ResizeKeepsPrefixZeroFillsRest ==
    \A t \in Threads :
       Succeeded(t, "resize") =>
          LET new_length == frame[t].new_length
              kept == Min(pre.length, new_length)
          IN  /\ length = new_length
              /\ SubSeq(Live, 1, kept) = SubSeq(pre.live, 1, kept)
              /\ \A k \in (pre.length + 1)..new_length : Live[k] = 0
              /\ new_length <= pre.length =>
                    (capacity = pre.capacity /\ data = pre.data)

\* a lengthening within the capacity, over slots that an earlier call left
C23_Witness ==
    /\ Succeeded(1, "resize")
    /\ pre.length = 1 /\ pre.live = <<2>> /\ pre.capacity = 2
    /\ frame[1].new_length = 2
    /\ capacity = pre.capacity /\ Live = <<2, 0>>

\* C24: reserve changes nothing when the capacity is at least min_capacity;
\* otherwise a success leaves the capacity exactly min_capacity with length
\* and elements unchanged, and a size overflow or allocation failure
\* returns -1 and leaves the container unchanged
C24_ReserveExactOrUnchanged ==
    \A t \in Threads :
       (Returning(t) /\ frame[t].op = "reserve") =>
          LET min_capacity == frame[t].new_capacity
          IN  IF min_capacity <= pre.capacity
              THEN ret[t].code = 0 /\ Snapshot = pre
              ELSE /\ ret[t].code \in {0, -1}
                   /\ ret[t].code = 0 =>
                         /\ capacity = min_capacity
                         /\ length = pre.length /\ Live = pre.live
                   /\ ret[t].code = -1 => Snapshot = pre
                   /\ min_capacity * element_size > SIZE_MAX => ret[t].code = -1

C24_Witness ==
    /\ Returning(1) /\ frame[1].op = "reserve" /\ ret[1].code = 0
    /\ pre.capacity = 1 /\ capacity = 2 /\ frame[1].new_capacity = 2
    /\ pre.live = <<2>> /\ Live = <<2>>

\* C25: a successful shrink_to_fit leaves capacity = length with length and
\* elements unchanged, and a NULL buffer when the length is 0; it is
\* idempotent: on a container whose capacity already equals its length (as
\* a first call leaves it) it succeeds and changes nothing
C25_ShrinkToFitTightIdempotent ==
    \A t \in Threads :
       (Returning(t) /\ frame[t].op = "shrink_to_fit") =>
          /\ ret[t].code = 0 =>
                /\ capacity = length
                /\ length = pre.length /\ Live = pre.live
                /\ length = 0 => data = NULL
          /\ pre.capacity = pre.length => (ret[t].code = 0 /\ Snapshot = pre)
          /\ ret[t].code # 0 => Snapshot = pre

C25_Witness ==
    /\ Succeeded(1, "shrink_to_fit")
    /\ pre.capacity = 2 /\ pre.length = 1 /\ capacity = 1
    /\ pre.live = <<2>> /\ Live = <<2>>

(* ----------------------- claims: clear, pop, copy --------------------- *)
\* C26: clear sets the length to 0 and leaves the capacity, the buffer
\* pointer and the bytes of the buffer as they were; a clear of a cleared
\* container changes nothing
C26_ClearKeepsBuffer ==
    \A t \in Threads :
       (Returning(t) /\ frame[t].op = "clear") =>
          /\ ret[t].code = 0
          /\ length = 0
          /\ capacity = pre.capacity /\ data = pre.data
          /\ ReadAt(buf, 0, pre.length) = pre.live
          /\ pre.length = 0 => Snapshot = pre

C26_Witness ==
    /\ Returning(1) /\ frame[1].op = "clear"
    /\ pre.length = 2 /\ pre.live = <<1, 2>> /\ length = 0
    /\ capacity = 2 /\ data # NULL /\ ReadAt(buf, 0, 2) = <<1, 2>>

\* C27: pop on a container with length > 0 returns a freshly allocated copy
\* of the element at length - 1, decrements the length by one and leaves
\* the capacity and the other elements unchanged; on an empty container it
\* returns NULL without allocating; when the allocation fails it returns
\* NULL with the length unchanged
C27_PopCopiesLast ==
    \A t \in Threads :
       (Returning(t) /\ frame[t].op = "pop") =>
          IF pre.length = 0
          THEN ret[t].code = -1 /\ ret[t].tried = 0 /\ Snapshot = pre
          ELSE /\ ret[t].tried = 1
               /\ ret[t].code = 0 =>
                     /\ ret[t].held = 1
                     /\ ret[t].out = <<pre.live[pre.length]>>
                     /\ length = pre.length - 1
                     /\ Live = SubSeq(pre.live, 1, pre.length - 1)
                     /\ capacity = pre.capacity /\ data = pre.data
               /\ ret[t].code # 0 =>
                     (ret[t].code = -1 /\ ret[t].held = 0 /\ Snapshot = pre)

C27_Witness ==
    /\ Returning(1) /\ frame[1].op = "pop" /\ ret[1].code = 0
    /\ pre.live = <<1, 2>> /\ ret[1].out = <<2>> /\ Live = <<1>>
    /\ ret[1].held = 1

(* ------------------------ a container and its copy -------------------- *)
\* the address calloc gives the data block of a new container: one that no
\* live block has
FreshBlock == CHOOSE a \in Addrs : a \notin heap

\* the new container pointing at the block of the source
CopiedData_Shared(block) == data

\* dst->data after _vector_create_base (line 185): a block of its own, NULL
\* when there are no elements
CopiedData(block) == IF length = 0 THEN NULL ELSE block

\* the container vector_copy returns (lines 185-190): capacity and length
\* are the length of the source, the block holds a copy of its elements
Copied ==
    [data |-> CopiedData(FreshBlock), buf |-> Live, length |-> length,
     capacity |-> length, element_size |-> element_size]

\* the slots of the block copied.data points at: those of the source when
\* the two pointers are the same block
CopiedBuf == IF copied.data # NULL /\ copied.data = data THEN buf ELSE copied.buf

CopiedLive == ReadAt(CopiedBuf, 0, copied.length)

\* what a caller can observe of the copied container
CopiedView ==
    [length |-> copied.length, capacity |-> copied.capacity,
     element_size |-> copied.element_size, live |-> CopiedLive]

\* the caller turns to the other container: the following calls are made on
\* the copy, and the container used so far is the one left alone.  The
\* addresses are renamed so that the container in use has the allocator's
\* block
OtherBlock(a) == IF a = NULL THEN NULL ELSE CHOOSE b \in Addrs : b # a

Exchange(t) ==
    /\ pc[t] = "idle"
    /\ ~ub
    /\ copied # NoCopy
    /\ data' = OtherBlock(copied.data) /\ buf' = copied.buf
    /\ length' = copied.length /\ capacity' = copied.capacity
    /\ element_size' = copied.element_size
    /\ copied' = [data |-> OtherBlock(data), buf |-> buf, length |-> length,
                  capacity |-> capacity, element_size |-> element_size]
    /\ UNCHANGED <<rwlock, platform, heap, pc, frame, ret, mode, iter, ub>>

CopyFrames ==
    {[op |-> "copy"], [op |-> "clear"], [op |-> "shrink_to_fit"],
     [op |-> "append", values |-> <<1>>, total_elements |-> 0],
     [op |-> "remove", index |-> 0, num_elements |-> 1]}
    \cup {[op |-> "set", index |-> 0, value |-> v] : v \in Values}

CopyCall(t) == \E f \in CopyFrames : Issued(f, MaxLen) /\ Begin(t, f)

NextCopy ==
    \/ CopyCall(1) /\ pre' = Snapshot /\ UNCHANGED <<popped, obs, whole, copied, sortvars>>
    \/ /\ copy(1)
       /\ copied' = IF ret'[1].code = 0 THEN Copied ELSE copied
       /\ UNCHANGED <<history, sortvars>>
    \/ /\ \/ vector_rdlock(1) \/ vector_wrlock(1) \/ vector_unlock(1)
          \/ append_grow(1) \/ append_copy(1) \/ set(1) \/ remove(1)
          \/ clear(1) \/ shrink_to_fit(1)
       /\ UNCHANGED <<history, copied, sortvars>>
    \/ Exchange(1) /\ UNCHANGED <<history, sortvars>>

SpecCopy == InitSeq /\ [][NextCopy]_vars

\* C28: copy returns a container with the element size of the source, the
\* length of the source, a capacity equal to that length and the same
\* elements, and leaves the source unchanged; no step of a later operation
\* on one of the two containers changes the length, capacity or elements of
\* the other
C28_CopyEqualAndIndependent ==
    /\ [](\A t \in Threads :
            Succeeded(t, "copy") =>
               /\ copied.element_size = element_size
               /\ copied.length = pre.length
               /\ copied.capacity = pre.length
               /\ CopiedLive = pre.live
               /\ Snapshot = pre)
    /\ [][(pc[1] # "idle" /\ ~Op(1, "copy")) => CopiedView' = CopiedView]_vars

C28_Witness ==
    /\ Returning(1) /\ frame[1].op = "set" /\ frame[1].value = 2
    /\ copied.length = 2 /\ CopiedLive = <<1, 2>>
    /\ Live = <<2, 2>> /\ copied.data # data

(* ------------------------ claims: swap and at ------------------------- *)
\* s with its elements i and j (0-based) exchanged
Exchanged(s, i, j) ==
    [k \in 1..Len(s) |-> IF k = i + 1 THEN s[j + 1] ELSE IF k = j + 1 THEN s[i + 1] ELSE s[k]]

\* C29: swap(i, j) with both indexes below the length exchanges the two
\* elements and changes nothing else; with i = j it changes nothing; with
\* an index at or beyond the length it returns -1 and changes nothing
C29_SwapExchangesTwo ==
    \A t \in Threads :
       (Returning(t) /\ frame[t].op = "swap") =>
          LET i == frame[t].idx1
              j == frame[t].idx2
          IN  IF i < pre.length /\ j < pre.length
              THEN /\ ret[t].code = 0
                   /\ Live = Exchanged(pre.live, i, j)
                   /\ length = pre.length /\ capacity = pre.capacity
                   /\ data = pre.data
                   /\ i = j => Snapshot = pre
              ELSE ret[t].code = -1 /\ Snapshot = pre

C29_Witness ==
    /\ Returning(1) /\ frame[1].op = "swap" /\ ret[1].code = 0
    /\ frame[1].idx1 = 0 /\ frame[1].idx2 = 1
    /\ pre.live = <<1, 2>> /\ Live = <<2, 1>>

(* --------------------------- one thread reading ----------------------- *)
\* vector_at with every index of the size range
AtCall(t) == \E i \in 0..SIZE_MAX : Begin(t, [op |-> "at", index |-> i])

NextAt ==
    \/ AtCall(1) /\ pre' = Snapshot /\ UNCHANGED <<popped, obs, whole, copied, sortvars>>
    \/ (vector_rdlock(1) \/ at(1) \/ vector_unlock(1)) /\ UNCHANGED <<history, copied, sortvars>>

SpecAt == InitSeq /\ [][NextAt]_vars

\* C30: at(index) returns a reference to the element stored at index
\* exactly when index < length, for every index of the size range, returns
\* NULL otherwise, and never changes the container
C30_AtInBoundsOnly ==
    \A t \in Threads :
       (Returning(t) /\ frame[t].op = "at") =>
          /\ IF frame[t].index < pre.length
             THEN ret[t].code = 0 /\ ret[t].out = <<pre.live[frame[t].index + 1]>>
             ELSE ret[t].code = -1 /\ ret[t].out = <<>>
          /\ Snapshot = pre /\ ~ub

C30_Witness ==
    /\ Returning(1) /\ frame[1].op = "at" /\ frame[1].index = SIZE_MAX
    /\ pre.length = MaxLen /\ ret[1].code = -1 /\ Snapshot = pre

(* ------------------------ claims: find and sort ----------------------- *)
\* the indexes below the length whose element compares equal to value
Matches(s, compar, value) ==
    {i \in 0..(Len(s) - 1) : Compare(compar, s[i + 1], value) = 0}

\* C31: find returns the smallest index below the length whose element
\* compares equal to the value, and -1 when no live element does (on an
\* empty container in particular); slots at or beyond the length are not
\* examined and the container is unchanged
C31_FindFirstMatch ==
    \A t \in Threads :
       (Returning(t) /\ frame[t].op = "find") =>
          LET hits == Matches(pre.live, frame[t].compar, frame[t].value)
          IN  /\ hits = {} => ret[t].code = -1
              /\ hits # {} => (ret[t].code \in hits /\ \A j \in hits : ret[t].code <= j)
              /\ Snapshot = pre /\ ~ub

\* a match in the second element only
C31_Witness ==
    /\ Returning(1) /\ frame[1].op = "find" /\ frame[1].compar = "eq"
    /\ frame[1].value = 1 /\ pre.live = <<2, 1>> /\ ret[1].code = 1

(* --------------------------- sort, step by step ----------------------- *)
\* the storage cell thread t reads and writes as _sort_context, _sort_compar
Cell(t) == IF thread_local THEN t ELSE 0

\* the elements in ascending order whatever the comparator
QsortResult_Ascending(compar, s) == Sorted("asc", s)

\* the array qsort leaves when every comparison is made with compar
QsortResult(compar, s) == Sorted(compar, s)

\* a and b hold the same elements the same number of times
SameElements(a, b) ==
    /\ Len(a) = Len(b)
    /\ \A k \in 1..Len(a) :
          Cardinality({i \in 1..Len(a) : a[i] = a[k]})
             = Cardinality({i \in 1..Len(b) : b[i] = a[k]})

\* the orders qsort can leave the elements of s in
Arrangements(s) ==
    {p \in [1..Len(s) -> {s[k] : k \in 1..Len(s)}] : SameElements(p, s)}

\* container 1 is the one the variables describe; container 2 is another
\* container, of frame.len elements, whose elements are not modelled
SortsMain(t) == frame[t].vec = 1

SortLength(t) == IF SortsMain(t) THEN length ELSE frame[t].len

\* the stage after the body: vector_unlock for container 1, whose lock is
\* modelled; the lock of container 2 has no other user
SortExit(t) == IF SortsMain(t) THEN "unlock" ELSE "ret"

\* _vector_sort_internal, lines 731-734: the early return, or the binding
sort_bind(t) ==
    /\ Op(t, "sort")
    /\ IF SortLength(t) <= 1
       THEN /\ Finish(t, SortExit(t), Result(0, <<>>, 0))
            /\ UNCHANGED <<_sort_context, _sort_compar>>
       ELSE /\ _sort_context' = [_sort_context EXCEPT ![Cell(t)] = frame[t].vec]
            /\ _sort_compar' = [_sort_compar EXCEPT ![Cell(t)] = frame[t].compar]
            /\ Finish(t, "qsort", Result(0, <<>>, 0))
    /\ UNCHANGED <<vecvars, rwlock, platform, heap, frame, mode, iter, ub, thread_local>>

\* _vector_qsort_wrapper, called by qsort: the comparator and the context
\* it reads are appended to ret.out; a NULL comparator is called through
qsort_compare(t) ==
    /\ pc[t] = "qsort"
    /\ Len(ret[t].out) < MaxCompares
    /\ LET seen == [compar |-> _sort_compar[Cell(t)], context |-> _sort_context[Cell(t)]]
       IN  /\ ret' = [ret EXCEPT ![t].out = Append(@, seen)]
           /\ ub' = (ub \/ seen.compar = "none")
    /\ UNCHANGED <<vecvars, rwlock, platform, heap, pc, frame, mode, iter, sortvars>>

\* the return of qsort, which compares n elements at least n - 1 times, and
\* lines 736-737; comparisons made with another comparator leave the
\* elements in any order
qsort_return(t) ==
    /\ pc[t] = "qsort"
    /\ Len(ret[t].out) >= SortLength(t) - 1
    /\ IF SortsMain(t)
       THEN /\ \E sorted \in
                  (IF \A k \in 1..Len(ret[t].out) : ret[t].out[k].compar = frame[t].compar
                   THEN {QsortResult(frame[t].compar, Live)}
                   ELSE Arrangements(Live)) :
                 buf' = WriteAt(buf, 0, sorted)
            /\ ub' = (ub \/ OutOfBlock(buf, 0, length))
       ELSE UNCHANGED <<buf, ub>>
    /\ _sort_context' = [_sort_context EXCEPT ![Cell(t)] = NULL]
    /\ _sort_compar' = [_sort_compar EXCEPT ![Cell(t)] = "none"]
    /\ pc' = [pc EXCEPT ![t] = SortExit(t)]
    /\ UNCHANGED <<data, length, capacity, element_size, rwlock, platform, heap,
                   frame, ret, mode, iter, thread_local>>

\* vector_sort(vec, type, compar) on container 1
SortCall(t) ==
    \E c \in {"asc", "desc"} : Begin(t, [op |-> "sort", compar |-> c, vec |-> 1])

\* vector_sort on container 2, by another thread
OtherSortCall(t) ==
    \E c \in {"asc", "desc"}, n \in 1..MaxLen :
       /\ pc[t] = "idle"
       /\ ~ub
       /\ frame' = [frame EXCEPT ![t] = [op |-> "sort", compar |-> c, vec |-> 2, len |-> n]]
       /\ pc' = [pc EXCEPT ![t] = "body"]
       /\ UNCHANGED <<vecvars, rwlock, platform, heap, ret, mode, iter, ub>>

\* a container of up to MaxLen elements, in a build with or without
\* thread-local storage
InitSort ==
    /\ element_size = 1
    /\ heap = {NULL, 1}
    /\ \E n \in 0..MaxLen : \E content \in [1..n -> Values \cup {0}] : Created(n, content)
    /\ platform = "linux"
    /\ InitThreads
    /\ copied = NoCopy
    /\ _sort_context = [c \in Cells |-> NULL]
    /\ _sort_compar = [c \in Cells |-> "none"]
    /\ thread_local \in BOOLEAN
    /\ pre = Snapshot /\ popped = <<>> /\ obs = {} /\ whole = {}

\* one thread sorting
NextSortSeq ==
    \/ SortCall(1) /\ pre' = Snapshot /\ UNCHANGED <<popped, obs, whole, copied, sortvars>>
    \/ (vector_wrlock(1) \/ vector_unlock(1)) /\ UNCHANGED <<history, copied, sortvars>>
    \/ (sort_bind(1) \/ qsort_compare(1) \/ qsort_return(1)) /\ UNCHANGED <<history, copied>>

SpecSortSeq == InitSort /\ [][NextSortSeq]_vars

\* thread 1 sorting container 1 while thread 2 sorts container 2
NextSort ==
    \/ SortCall(1) /\ pre' = Snapshot /\ UNCHANGED <<popped, obs, whole, copied, sortvars>>
    \/ (vector_wrlock(1) \/ vector_unlock(1) \/ OtherSortCall(2) \/ Return(2))
          /\ UNCHANGED <<history, copied, sortvars>>
    \/ (\E t \in Clients : sort_bind(t) \/ qsort_compare(t) \/ qsort_return(t))
          /\ UNCHANGED <<history, copied>>

SpecSort == InitSort /\ [][NextSort]_vars

\* C32: sort with a total-order three-way comparator leaves the live
\* elements a permutation of what they were, with comparator(element[i],
\* element[i+1]) <= 0 for every adjacent pair, and length and capacity
\* unchanged; for length <= 1 nothing changes and the comparator is not
\* called
C32_SortOrdersPermutation ==
    (Returning(1) /\ frame[1].op = "sort") =>
       IF pre.length <= 1
       THEN Snapshot = pre /\ ret[1].out = <<>>
       ELSE /\ SameElements(Live, pre.live)
            /\ \A i \in 1..(length - 1) :
                  Compare(frame[1].compar, Live[i], Live[i + 1]) <= 0
            /\ length = pre.length /\ capacity = pre.capacity /\ data = pre.data

C32_Witness ==
    /\ Returning(1) /\ frame[1].op = "sort" /\ frame[1].compar = "desc"
    /\ pre.live = <<1, 2>> /\ Live = <<2, 1>>

\* what every comparator call of thread t's sort has received is the
\* comparator and the container of that call, and the binding is cleared
\* when the call returns
OwnBinding(t) ==
    (frame[t].op = "sort" /\ pc[t] \in {"qsort", "unlock", "ret"}) =>
       /\ \A k \in 1..Len(ret[t].out) :
             ret[t].out[k] = [compar |-> frame[t].compar, context |-> frame[t].vec]
       /\ pc[t] \in {"unlock", "ret"} =>
             (_sort_context[Cell(t)] = NULL /\ _sort_compar[Cell(t)] = "none")

\* C39: the binding of a sort call is exclusive to the call, also while
\* another thread sorts another container with another comparator, and both
\* the context and the comparator are null when the call returns
C39_SortBindingExclusive == \A t \in Clients : OwnBinding(t)

(* ---------------------- appends one at a time ------------------------- *)
\* test_performance_stress: vector_create(int, 0), then vector_append of one
\* element at a time, here up to GrowLen elements; allocations succeed
InitGrow ==
    /\ data = NULL /\ buf = <<>> /\ length = 0 /\ capacity = 0
    /\ element_size = 1
    /\ rwlock = Free
    /\ platform = "linux"
    /\ heap = {1}
    /\ ub = FALSE
    /\ InitThreads
    /\ copied = NoCopy
    /\ NoSort
    /\ InitHistory

GrowCall(t) ==
    /\ length < GrowLen
    /\ \E v \in Values : Begin(t, [op |-> "append", values |-> <<v>>, total_elements |-> 0])

\* obs collects the reallocations: the capacity before and after
NextGrow ==
    \/ GrowCall(1) /\ pre' = Snapshot /\ UNCHANGED <<popped, obs, whole, copied, sortvars>>
    \/ /\ append_grow(1)
       /\ obs' = IF pc'[1] = "copy" /\ length + 1 > capacity
                 THEN obs \cup {[from |-> capacity, to |-> capacity']}
                 ELSE obs
       /\ UNCHANGED <<pre, popped, whole, copied, sortvars>>
    \/ (vector_wrlock(1) \/ append_copy(1) \/ vector_unlock(1))
          /\ UNCHANGED <<history, copied, sortvars>>

SpecGrow == InitGrow /\ [][NextGrow]_vars

\* 2 + the largest k with (3/2)^(k - 1) <= n - 2: the reallocations n
\* appends can need when every reallocation from capacity c >= 2 on
\* reaches at least c + floor(c / 2)
LogBound(n) ==
    IF n <= 2 THEN n
    ELSE 2 + Cardinality({k \in 1..n : 3 ^ (k - 1) <= (n - 2) * 2 ^ (k - 1)})

\* C33: appending elements one at a time to an empty container, every
\* reallocation raises the capacity, from capacity 2 on to at least
\* capacity + floor(capacity / 2), and after N appends the number of
\* reallocations is at most 2 + (1 + log of N - 2 to base 3/2, rounded down)
C33_LogarithmicReallocations ==
    /\ \A r \in obs :
          /\ r.to > r.from
          /\ r.from >= 2 => r.to >= r.from + r.from \div 2
    /\ pc[1] = "idle" => Cardinality(obs) <= LogBound(length)

\* ten appends: seven reallocations, the last from capacity 9 to 13
C33_Witness ==
    /\ pc[1] = "idle" /\ length = 10 /\ capacity = 13
    /\ Cardinality(obs) = 7
    /\ [from |-> 9, to |-> 13] \in obs

(* -------------------------- growth on demand -------------------------- *)
\* a container of any capacity up to DemandCap and any length within it
\* (vector_create, then vector_reserve)
InitDemand ==
    /\ element_size = 1
    /\ heap = {NULL, 1}
    /\ \E c \in 0..DemandCap : \E n \in 0..c :
          /\ length = n /\ capacity = c
          /\ buf = [i \in 1..c |-> IF i <= n THEN 1 ELSE Junk]
          /\ data = (IF c = 0 THEN NULL ELSE 1)
    /\ ub = FALSE
    /\ rwlock = Free
    /\ platform = "linux"
    /\ InitThreads
    /\ copied = NoCopy
    /\ NoSort
    /\ pre = Snapshot /\ popped = <<>> /\ obs = {} /\ whole = {}

DemandFrames ==
    {[op |-> "append", values |-> vs, total_elements |-> 0] : vs \in {<<1>>, <<1, 2>>}}
    \cup {[op |-> "insert", index |-> i, values |-> vs] :
             i \in 0..DemandCap, vs \in {<<1>>, <<1, 2>>}}

DemandCall(t) ==
    \E f \in DemandFrames :
       /\ Issued(f, DemandCap + 2)
       /\ f.op = "insert" => f.index <= length
       /\ Begin(t, f)

NextDemand ==
    \/ DemandCall(1) /\ pre' = Snapshot /\ UNCHANGED <<popped, obs, whole, copied, sortvars>>
    \/ (vector_wrlock(1) \/ append_grow(1) \/ append_copy(1) \/ insert(1) \/ vector_unlock(1))
          /\ UNCHANGED <<history, copied, sortvars>>

SpecDemand == InitDemand /\ [][NextDemand]_vars

\* C34: an append or insert of count elements that succeeds leaves the
\* capacity at count when length + count > capacity and the capacity was 0,
\* at max(capacity + floor(capacity / 2), length + count) when
\* length + count > capacity > 0, and leaves the capacity and the block as
\* they were when length + count <= capacity
C34_GrowthOnDemand ==
    (Succeeded(1, "append") \/ Succeeded(1, "insert")) =>
       LET count == Len(frame[1].values)
       IN  IF pre.length + count > pre.capacity
           THEN capacity = IF pre.capacity = 0 THEN count
                           ELSE Max(pre.capacity + pre.capacity \div 2, pre.length + count)
           ELSE capacity = pre.capacity /\ data = pre.data

\* a full container of capacity 4 grown to 6 by an insert of one element
C34_Witness ==
    /\ Succeeded(1, "insert") /\ Len(frame[1].values) = 1
    /\ pre.capacity = 4 /\ pre.length = 4
    /\ capacity = 6 /\ length = 5

(* ------------------- sizes near the top of the range ------------------ *)
\* a container of bytes of any capacity and any length within it
InitWide ==
    /\ element_size = 1
    /\ heap = {NULL, 1}
    /\ \E c \in 0..SIZE_MAX : \E n \in 0..c :
          /\ length = n /\ capacity = c
          /\ buf = [i \in 1..c |-> IF i <= n THEN 1 ELSE Junk]
          /\ data = (IF c = 0 THEN NULL ELSE 1)
    /\ ub = FALSE
    /\ rwlock = Free
    /\ platform = "linux"
    /\ InitThreads
    /\ copied = NoCopy
    /\ NoSort
    /\ pre = Snapshot /\ popped = <<>> /\ obs = {} /\ whole = {}

WideSizes == {0, 1, 2, SIZE_MAX - 1, SIZE_MAX}

WideFrames ==
    {[op |-> "append", values |-> vs, total_elements |-> 0] : vs \in {<<1>>, <<1, 2>>}}
    \cup {[op |-> "insert", index |-> 0, values |-> vs] : vs \in {<<1>>, <<1, 2>>}}
    \cup {[op |-> "remove", index |-> i, num_elements |-> n] : i \in WideSizes, n \in WideSizes}
    \cup {[op |-> "resize", new_length |-> n] : n \in 0..SIZE_MAX}
    \cup {[op |-> "reserve", new_capacity |-> n] : n \in 0..SIZE_MAX}

\* up to WideCalls calls with any of these arguments
WideCall(t) ==
    \E f \in WideFrames :
       /\ pc[t] = "idle"
       /\ ~ub
       /\ iter[t] < WideCalls
       /\ frame' = [frame EXCEPT ![t] = f]
       /\ iter' = [iter EXCEPT ![t] = iter[t] + 1]
       /\ pc' = [pc EXCEPT ![t] = "lock"]
       /\ UNCHANGED <<vecvars, rwlock, platform, heap, ret, mode, ub>>

NextWide ==
    \/ WideCall(1) /\ pre' = Snapshot /\ UNCHANGED <<popped, obs, whole, copied, sortvars>>
    \/ (\/ vector_wrlock(1) \/ append_grow(1) \/ append_copy(1) \/ insert(1)
        \/ remove(1) \/ resize(1) \/ reserve(1) \/ vector_unlock(1))
          /\ UNCHANGED <<history, copied, sortvars>>

SpecWide == InitWide /\ [][NextWide]_vars

\* C35: no call of append, insert, remove, resize or reserve that reports
\* success has added or multiplied sizes to more than SIZE_MAX: not
\* length + count, capacity + capacity / 2 or the byte size in append and
\* insert, not index + count in remove, not capacity * 2 or the byte size
\* in resize, not the byte size in reserve
C35_NoSilentWrap ==
    (Returning(1) /\ ret[1].code = 0) =>
       LET f == frame[1]
           count == IF f.op \in {"append", "insert"} THEN Len(f.values) ELSE 0
       IN  /\ (f.op \in {"append", "insert"}) =>
                /\ pre.length + count <= SIZE_MAX
                /\ (pre.length + count > pre.capacity /\ pre.capacity # 0) =>
                      pre.capacity + pre.capacity \div 2 <= SIZE_MAX
                /\ capacity * element_size <= SIZE_MAX
           /\ (f.op = "remove") => f.index + f.num_elements <= SIZE_MAX
           /\ (f.op = "resize" /\ f.new_length > pre.capacity /\ pre.capacity # 0) =>
                 pre.capacity * 2 <= SIZE_MAX
           /\ (f.op \in {"resize", "reserve"}) => capacity * element_size <= SIZE_MAX

(* ------------------------- checked arithmetic ------------------------- *)
\* a call of _safe_add or _safe_mul with any two sizes
safe_call(t) ==
    \E op \in {"_safe_add", "_safe_mul"}, a \in 0..SIZE_MAX, b \in 0..SIZE_MAX :
       /\ pc[t] = "idle"
       /\ frame' = [frame EXCEPT ![t] = [op |-> op, a |-> a, b |-> b]]
       /\ pc' = [pc EXCEPT ![t] = "body"]
       /\ UNCHANGED <<vecvars, rwlock, platform, heap, ret, mode, iter, ub>>

\* what a checked operation returns: 0 and the value stored to *result, or
\* -1 with nothing stored
Checked(r) == IF r.ok THEN Result(0, <<r.result>>, 0) ELSE Result(-1, <<>>, 0)

safe_add(t) ==
    /\ Op(t, "_safe_add")
    /\ Unchanged(t, "ret", Checked(_safe_add(frame[t].a, frame[t].b)))
    /\ UNCHANGED <<rwlock, platform, heap, frame, mode, iter>>

safe_mul(t) ==
    /\ Op(t, "_safe_mul")
    /\ Unchanged(t, "ret", Checked(_safe_mul(frame[t].a, frame[t].b)))
    /\ UNCHANGED <<rwlock, platform, heap, frame, mode, iter>>

NextArith ==
    /\ safe_call(1) \/ safe_add(1) \/ safe_mul(1) \/ Return(1)
    /\ UNCHANGED <<history, copied, sortvars>>

SpecArith == InitGrow /\ [][NextArith]_vars

\* C36: for all sizes a and b, _safe_add fails exactly when a + b exceeds
\* SIZE_MAX and otherwise stores a + b; _safe_mul fails exactly when a * b
\* exceeds SIZE_MAX and otherwise stores a * b, also for a = 0 or b = 0;
\* nothing is stored on failure
C36_CheckedArithmeticExact ==
    (pc[1] = "ret" /\ frame[1].op \in {"_safe_add", "_safe_mul"}) =>
       LET exact == IF frame[1].op = "_safe_add" THEN frame[1].a + frame[1].b
                    ELSE frame[1].a * frame[1].b
       IN  IF exact > SIZE_MAX
           THEN ret[1].code = -1 /\ ret[1].out = <<>>
           ELSE ret[1].code = 0 /\ ret[1].out = <<exact>>

\* the smallest product beyond the range with SIZE_MAX as a factor
C36_Witness ==
    /\ pc[1] = "ret"
    /\ frame[1] = [op |-> "_safe_mul", a |-> 2, b |-> SIZE_MAX]
    /\ ret[1].code = -1

C38_ReleaseMatchesAcquisition ==
    /\ rwlock.shared = Cardinality({t \in Threads : mode[t] = "shared"})
    /\ rwlock.locked = (\E t \in Threads : mode[t] # "none")

\* the operations that can reallocate to a larger block
GrowingOps == {"append", "prepend", "insert", "reserve", "resize"}

\* C40: over any sequence of operations no step lowers the capacity except
\* a step of shrink_to_fit, no step changes it except a step of append,
\* prepend, insert, reserve, resize or shrink_to_fit (so remove, pop, clear,
\* swap, set, sort, at, find, copy and serialize leave it as it was), and no
\* step changes element_size
C40_CapacityMonotone ==
    [][/\ element_size' = element_size
       /\ capacity' < capacity => frame[1].op = "shrink_to_fit"
       /\ capacity' # capacity => frame[1].op \in GrowingOps \cup {"shrink_to_fit"}]_vars

\* a clear that has emptied a container of capacity 2 and left the capacity
C40_Witness ==
    /\ Succeeded(1, "clear")
    /\ pre.length = 2 /\ pre.capacity = 2
    /\ length = 0 /\ capacity = 2

====
